---------------------------- MODULE Spec2Model ----------------------------
(***************************************************************************)
(* MS/TP datalink port (ports/bsd/dlmstp_port.c): the outbound PDU ring,   *)
(* the one-slot receive mailbox, the reply-match predicate and the frame   *)
(* codec they call.  C arrays are sequences; the C index i is At(a, i).    *)
(***************************************************************************)
EXTENDS Integers, Sequences, FiniteSets, TLC

(***************************************************************************)
(* Bounds of the model.                                                    *)
(***************************************************************************)
\* ring capacity (stands for the header's MSTP_PDU_PACKET_COUNT)
MSTP_PDU_PACKET_COUNT == 3
\* longest NPDU the upper layer hands over (stands for the 501 of the data model)
MaxPduLen == 12
\* number of dlmstp_send_pdu calls explored (caps the ring's head counter)
MaxSends == 4
\* calls of dlmstp_send_pdu explored on a bus with two nodes
MaxPairSends == 2

(***************************************************************************)
(* Program constants.                                                      *)
(***************************************************************************)
BACNET_PDU_CONTROL_BYTE_OFFSET == 1
BACNET_DATA_EXPECTING_REPLY_BIT == 2
FRAME_TYPE_BACNET_DATA_EXPECTING_REPLY == 5
FRAME_TYPE_BACNET_DATA_NOT_EXPECTING_REPLY == 6
MSTP_BROADCAST_ADDRESS == 255
MAX_MAC_LEN == 7
PDU_TYPE_CONFIRMED_SERVICE_REQUEST == 0
PDU_TYPE_SIMPLE_ACK == 32
PDU_TYPE_COMPLEX_ACK == 48
PDU_TYPE_SEGMENT_ACK == 64
PDU_TYPE_ERROR == 80
PDU_TYPE_REJECT == 96
PDU_TYPE_ABORT == 112
\* preamble, type, destination, source, two length octets, header CRC
FRAME_HEADER_SIZE == 8
FRAME_CRC_SIZE == 2
\* sizeof(pkt->buffer), sizeof(Receive_Packet.pdu), sizeof(RxBuffer), sizeof(TxBuffer)
DLMSTP_MPDU_MAX == FRAME_HEADER_SIZE + MaxPduLen + FRAME_CRC_SIZE

(***************************************************************************)
(* Octets and bit operations.                                              *)
(***************************************************************************)
Octet == 0..255

At(a, i) == a[i + 1]

Pow2(n) == CASE n = 0 -> 1 [] n = 1 -> 2 [] n = 2 -> 4 [] n = 3 -> 8
             [] n = 4 -> 16 [] n = 5 -> 32 [] n = 6 -> 64 [] n = 7 -> 128
             [] n = 8 -> 256 [] n = 12 -> 4096 [] n = 16 -> 65536

\* x & BIT(n)
BIT(x, n) == (x \div Pow2(n)) % 2 = 1

\* x & 0xF0
HighNibble(x) == (x \div 16) * 16

\* bit n of x, 0 outside the octet when n is not one of its positions
OctetBit(x, n) == IF n < 0 \/ n > 7 THEN 0 ELSE (x \div Pow2(n)) % 2

XorTable == [x \in Octet |-> [y \in Octet |->
    ((OctetBit(x, 0) + OctetBit(y, 0)) % 2)
    + 2 * ((OctetBit(x, 1) + OctetBit(y, 1)) % 2)
    + 4 * ((OctetBit(x, 2) + OctetBit(y, 2)) % 2)
    + 8 * ((OctetBit(x, 3) + OctetBit(y, 3)) % 2)
    + 16 * ((OctetBit(x, 4) + OctetBit(y, 4)) % 2)
    + 32 * ((OctetBit(x, 5) + OctetBit(y, 5)) % 2)
    + 64 * ((OctetBit(x, 6) + OctetBit(y, 6)) % 2)
    + 128 * ((OctetBit(x, 7) + OctetBit(y, 7)) % 2)]]

\* a ^ b on octets
Xor(a, b) == XorTable[a][b]

Zeros(n) == [i \in 1..n |-> 0]

\* memmove / byte loop: the first n octets of dst are overwritten, the rest stay
CopyInto(dst, src, n) == [i \in 1..Len(dst) |-> IF i <= n THEN src[i] ELSE dst[i]]

Prefix(a, n) == [i \in 1..n |-> a[i]]

(***************************************************************************)
(* CRC of the frame codec (Annex G of the standard, spec 4.1).             *)
(***************************************************************************)
\* bit k of x ^ (x << 1) ^ ... ^ (x << 7)
CRC8Bit(x, k) ==
    (OctetBit(x, k) + OctetBit(x, k - 1) + OctetBit(x, k - 2) + OctetBit(x, k - 3)
     + OctetBit(x, k - 4) + OctetBit(x, k - 5) + OctetBit(x, k - 6)
     + OctetBit(x, k - 7)) % 2

\* (crc & 0xfe) ^ ((crc >> 8) & 1) of that value
CRC8Step(x) ==
    CRC8Bit(x, 8) + 2 * CRC8Bit(x, 1) + 4 * CRC8Bit(x, 2) + 8 * CRC8Bit(x, 3)
    + 16 * CRC8Bit(x, 4) + 32 * CRC8Bit(x, 5) + 64 * CRC8Bit(x, 6)
    + 128 * CRC8Bit(x, 7)

CRC8Table == [x \in Octet |-> CRC8Step(x)]

CRC_Calc_Header_good(dataValue, crcValue) == 85

CRC_Calc_Header(dataValue, crcValue) == CRC8Table[Xor(crcValue, dataValue)]

LowNibbleBit(x, n) == IF n > 3 THEN 0 ELSE OctetBit(x, n)

\* bit k of (v << 8) ^ (v << 3) ^ (v << 12) ^ (v >> 4) ^ (v & 0x0f) ^ ((v & 0x0f) << 7)
CRC16Bit(v, k) ==
    (OctetBit(v, k - 8) + OctetBit(v, k - 3) + OctetBit(v, k - 12) + OctetBit(v, k + 4)
     + LowNibbleBit(v, k) + LowNibbleBit(v, k - 7)) % 2

CRC16Step(v) ==
    CRC16Bit(v, 0) + 2 * CRC16Bit(v, 1) + 4 * CRC16Bit(v, 2) + 8 * CRC16Bit(v, 3)
    + 16 * CRC16Bit(v, 4) + 32 * CRC16Bit(v, 5) + 64 * CRC16Bit(v, 6)
    + 128 * CRC16Bit(v, 7) + 256 * CRC16Bit(v, 8) + 512 * CRC16Bit(v, 9)
    + 1024 * CRC16Bit(v, 10) + 2048 * CRC16Bit(v, 11) + 4096 * CRC16Bit(v, 12)
    + 8192 * CRC16Bit(v, 13) + 16384 * CRC16Bit(v, 14) + 32768 * CRC16Bit(v, 15)

CRC16Table == [x \in Octet |-> CRC16Step(x)]

\* (crcValue >> 8) ^ table[(crcValue & 0xff) ^ dataValue]
CRC16Of(dataValue, crcValue) ==
    LET t == CRC16Table[Xor(crcValue % 256, dataValue)]
    IN  (t \div 256) * 256 + Xor(crcValue \div 256, t % 256)

CRC_Calc_Data(dataValue, crcValue) ==
    CHOOSE r \in {CRC16Of(d, c) : d \in {dataValue}, c \in {crcValue}} : TRUE

\* the running CRC after folding octets[1..i] into crc, one octet at a time
HeaderCRCOf(octets, crc) ==
    LET run[i \in 0..Len(octets)] ==
            IF i = 0 THEN crc ELSE CRC_Calc_Header(octets[i], run[i - 1])
    IN  run[Len(octets)]

DataCRCOf(octets, crc) ==
    LET run[i \in 0..Len(octets)] ==
            IF i = 0 THEN crc ELSE CRC_Calc_Data(octets[i], run[i - 1])
    IN  run[Len(octets)]

\* header octets followed by the one's complement of their CRC
FrameHeader(hdr) == <<85, 255>> \o hdr \o <<255 - HeaderCRCOf(hdr, 255)>>

\* data octets followed by the one's complement of their CRC, low octet first
FrameData(body) ==
    IF body = << >> THEN << >>
    ELSE CHOOSE d \in {body \o <<(65535 - crc16) % 256, (65535 - crc16) \div 256>> :
                          crc16 \in {DataCRCOf(body, 65535)}} : TRUE

\* the frame as it goes on the wire; << >> stands for "nothing built, returns 0"
MSTP_Create_Frame(out_size, frame_type, destination, source, data, data_len) ==
    IF data_len > MaxPduLen \/ out_size < FRAME_HEADER_SIZE + data_len + FRAME_CRC_SIZE
    THEN << >>
    ELSE FrameHeader(<<frame_type, destination, source, data_len \div 256, data_len % 256>>)
         \o FrameData(Prefix(data, data_len))

(***************************************************************************)
(* BACnet addresses.  An octet the code never assigns is Unset.            *)
(***************************************************************************)
Unset == -1

dlmstp_fill_bacnet_address(mstp_address) ==
    [mac_len |-> IF mstp_address = MSTP_BROADCAST_ADDRESS THEN 0 ELSE 1,
     mac     |-> [i \in 1..MAX_MAC_LEN |->
                    IF i = 1 /\ mstp_address # MSTP_BROADCAST_ADDRESS
                    THEN mstp_address ELSE 0],
     net     |-> 0,
     len     |-> 0,
     adr     |-> Zeros(MAX_MAC_LEN)]

\* struct DER_compare_t's address before bacnet_npdu_decode fills net, len, adr
LocalAddress(mac0) ==
    [mac_len |-> 1,
     mac     |-> [i \in 1..MAX_MAC_LEN |-> IF i = 1 THEN mac0 ELSE Unset],
     net     |-> Unset, len |-> Unset, adr |-> [i \in 1..MAX_MAC_LEN |-> Unset]]

bacnet_address_same(dest, src) ==
    /\ dest.mac_len = src.mac_len
    /\ \A i \in 1..dest.mac_len : dest.mac[i] = src.mac[i]
    /\ dest.net = src.net
    /\ dest.len = src.len
    /\ \A i \in 1..dest.len : dest.adr[i] = src.adr[i]

(***************************************************************************)
(* NPDU header decoding: version, control, optional DNET/DLEN/DADR,        *)
(* optional SNET/SLEN/SADR, hop count, network message type.               *)
(***************************************************************************)
\* net, len, adr of an address specifier at C index pos, or the zeroed local one
AddressSpecifier(npdu, present, pos) ==
    IF present
    THEN LET alen == At(npdu, pos + 2)
         IN  [net |-> At(npdu, pos) * 256 + At(npdu, pos + 1),
              len |-> alen,
              adr |-> [i \in 1..MAX_MAC_LEN |->
                         IF i <= alen THEN At(npdu, pos + 2 + i) ELSE Unset],
              size |-> 3 + alen]
    ELSE [net |-> 0, len |-> 0, adr |-> Zeros(MAX_MAC_LEN), size |-> 0]

bacnet_npdu_decode(npdu) ==
    LET control == At(npdu, 1)
        dst == AddressSpecifier(npdu, BIT(control, 5), 2)
        src == AddressSpecifier(npdu, BIT(control, 3), 2 + dst.size)
        nlm == BIT(control, 7)
        afterAddr == 2 + dst.size + src.size
        afterHop == IF dst.net # 0 THEN afterAddr + 1 ELSE afterAddr
        afterType == IF nlm
                     THEN IF At(npdu, afterHop) >= 128 THEN afterHop + 3 ELSE afterHop + 1
                     ELSE afterHop
    IN  [offset |-> afterType,
         protocol_version |-> At(npdu, 0),
         network_layer_message |-> nlm,
         data_expecting_reply |-> BIT(control, BACNET_DATA_EXPECTING_REPLY_BIT),
         dest |-> dst, src |-> src]

WithSpecifier(address, spec) ==
    [address EXCEPT !.net = spec.net, !.len = spec.len, !.adr = spec.adr]

(***************************************************************************)
(* dlmstp_compare_data_expecting_reply                                     *)
(***************************************************************************)
\* the reply's invoke_id and service_choice as the switch assigns them;
\* known = FALSE is the switch's default branch
ReplyFields(reply_pdu, offset) ==
    LET pdu_type == HighNibble(At(reply_pdu, offset))
    IN  CASE pdu_type = PDU_TYPE_SIMPLE_ACK ->
               [known |-> TRUE, invoke_id |-> At(reply_pdu, offset + 1),
                service_choice |-> At(reply_pdu, offset + 2)]
          [] pdu_type = PDU_TYPE_COMPLEX_ACK ->
               [known |-> TRUE, invoke_id |-> At(reply_pdu, offset + 1),
                service_choice |-> IF BIT(At(reply_pdu, offset), 3)
                                   THEN At(reply_pdu, offset + 4)
                                   ELSE At(reply_pdu, offset + 2)]
          [] pdu_type = PDU_TYPE_ERROR ->
               [known |-> TRUE, invoke_id |-> At(reply_pdu, offset + 1),
                service_choice |-> At(reply_pdu, offset + 2)]
          [] pdu_type \in {PDU_TYPE_REJECT, PDU_TYPE_ABORT, PDU_TYPE_SEGMENT_ACK} ->
               [known |-> TRUE, invoke_id |-> At(reply_pdu, offset + 1),
                service_choice |-> Unset]
          [] OTHER ->
               [known |-> FALSE, invoke_id |-> Unset, service_choice |-> Unset]

dlmstp_compare_data_expecting_reply(request_pdu, src_address, reply_pdu, dest_address) ==
    LET req == bacnet_npdu_decode(request_pdu)
        request_address == WithSpecifier(LocalAddress(src_address), req.src)
        roff == req.offset
    IN  IF req.network_layer_message THEN FALSE
        ELSE IF HighNibble(At(request_pdu, roff)) # PDU_TYPE_CONFIRMED_SERVICE_REQUEST
        THEN FALSE
        ELSE
        LET request_invoke_id == At(request_pdu, roff + 2)
            request_service_choice == IF BIT(At(request_pdu, roff), 3)
                                      THEN At(request_pdu, roff + 5)
                                      ELSE At(request_pdu, roff + 3)
            rep == bacnet_npdu_decode(reply_pdu)
            reply_address == WithSpecifier(LocalAddress(dest_address), rep.dest)
        IN  IF rep.network_layer_message THEN FALSE
            ELSE
            LET reply == ReplyFields(reply_pdu, rep.offset)
                reply_pdu_type == HighNibble(At(reply_pdu, rep.offset))
            IN  IF ~reply.known THEN FALSE
                ELSE IF request_invoke_id # reply.invoke_id THEN FALSE
                ELSE IF /\ reply_pdu_type \notin
                              {PDU_TYPE_REJECT, PDU_TYPE_ABORT, PDU_TYPE_SEGMENT_ACK}
                        /\ request_service_choice # reply.service_choice
                THEN FALSE
                ELSE IF req.protocol_version # rep.protocol_version THEN FALSE
                ELSE bacnet_address_same(request_address, reply_address)

(***************************************************************************)
(* The ring of PDU packets.  A pointer to an element is its slot number;   *)
(* head counts the packets committed, tail the packets removed.            *)
(***************************************************************************)
NULL == -1

Slots == 0..(MSTP_PDU_PACKET_COUNT - 1)

SlotOf(index) == index % MSTP_PDU_PACKET_COUNT

Ringbuf_Count(q) == q.head - q.tail

Ringbuf_Full(q) == Ringbuf_Count(q) = MSTP_PDU_PACKET_COUNT

Ringbuf_Empty(q) == Ringbuf_Count(q) = 0

\* the free element a producer may fill, NULL when the ring is full
Ringbuf_Data_Peek(q) == IF Ringbuf_Full(q) THEN NULL ELSE SlotOf(q.head)

\* commits the element handed out by Ringbuf_Data_Peek
Ringbuf_Data_Put(q, data_element) ==
    IF ~Ringbuf_Full(q) /\ SlotOf(q.head) = data_element
    THEN [q |-> [q EXCEPT !.head = @ + 1], status |-> TRUE]
    ELSE [q |-> q, status |-> FALSE]

\* the oldest element, NULL when the ring is empty
Ringbuf_Peek(q) == IF Ringbuf_Empty(q) THEN NULL ELSE SlotOf(q.tail)

\* the element queued after data_element, NULL at the end of the queue
Ringbuf_Peek_Next(q, data_element) ==
    LET at == {index \in q.tail..(q.head - 2) : SlotOf(index) = data_element}
    IN  IF data_element = NULL \/ at = {} THEN NULL
        ELSE SlotOf((CHOOSE index \in at : TRUE) + 1)

Ringbuf_Pop(q) == IF Ringbuf_Empty(q) THEN q ELSE [q EXCEPT !.tail = @ + 1]

\* removes this_element wherever it is queued: the older elements move up
\* one slot to fill the gap and the tail advances
Ringbuf_Pop_Element(q, buffer, this_element) ==
    LET at == {index \in q.tail..(q.head - 1) : SlotOf(index) = this_element}
    IN  IF this_element = NULL \/ at = {} THEN [q |-> q, buffer |-> buffer]
        ELSE LET this_index == CHOOSE index \in at : TRUE
                 moved == (q.tail + 1)..this_index
             IN  [q |-> [q EXCEPT !.tail = @ + 1],
                  buffer |-> [s \in Slots |->
                      IF \E index \in moved : SlotOf(index) = s
                      THEN buffer[SlotOf((CHOOSE index \in moved : SlotOf(index) = s) - 1)]
                      ELSE buffer[s]]]

\* the queued packets, oldest first
QueueOf(q, buffer) == [i \in 1..Ringbuf_Count(q) |-> buffer[SlotOf(q.tail + i - 1)]]

EmptyPacket ==
    [data_expecting_reply |-> FALSE, destination_mac |-> 0, length |-> 0,
     buffer |-> Zeros(DLMSTP_MPDU_MAX)]

(***************************************************************************)
(* dlmstp_send_pdu, MSTP_Get_Send, MSTP_Get_Reply as functions of the      *)
(* state they read: the new ring, the new element array, the value         *)
(* returned and the frame built.                                           *)
(***************************************************************************)
BACNET_DATA_EXPECTING_REPLY(control) == BIT(control, BACNET_DATA_EXPECTING_REPLY_BIT)

\* variant: the element at the head is filled without asking whether it is free
dlmstp_send_pdu_unchecked(q, buffer, dest, pdu, pdu_len, control) ==
    LET pkt == SlotOf(q.head)
        filled == [buffer EXCEPT ![pkt] =
                     [data_expecting_reply |-> BACNET_DATA_EXPECTING_REPLY(control),
                      buffer |-> CopyInto(@.buffer, pdu, pdu_len),
                      length |-> pdu_len,
                      destination_mac |-> dest.mac[1]]]
        put == Ringbuf_Data_Put(q, pkt)
    IN  [q |-> put.q, buffer |-> filled,
         bytes_sent |-> IF put.status THEN pdu_len ELSE 0]

\* control is the octet read at pdu[BACNET_PDU_CONTROL_BYTE_OFFSET]
dlmstp_send_pdu(q, buffer, dest, pdu, pdu_len, control) ==
    LET pkt == Ringbuf_Data_Peek(q)
    IN  IF pkt = NULL
        THEN [q |-> q, buffer |-> buffer, bytes_sent |-> 0]
        ELSE LET filled == [buffer EXCEPT ![pkt] =
                     [data_expecting_reply |-> BACNET_DATA_EXPECTING_REPLY(control),
                      buffer |-> CopyInto(@.buffer, pdu, pdu_len),
                      length |-> pdu_len,
                      destination_mac |-> dest.mac[1]]]
                 put == Ringbuf_Data_Put(q, pkt)
             IN  [q |-> put.q, buffer |-> filled,
                  bytes_sent |-> IF put.status THEN pdu_len ELSE 0]

\* variant: the two data frame types exchanged
FrameOf_swapped(pkt, station) ==
    MSTP_Create_Frame(DLMSTP_MPDU_MAX,
        IF pkt.data_expecting_reply
        THEN FRAME_TYPE_BACNET_DATA_NOT_EXPECTING_REPLY
        ELSE FRAME_TYPE_BACNET_DATA_EXPECTING_REPLY,
        pkt.destination_mac, station, pkt.buffer, pkt.length)

FrameOf(pkt, station) ==
    MSTP_Create_Frame(DLMSTP_MPDU_MAX,
        IF pkt.data_expecting_reply
        THEN FRAME_TYPE_BACNET_DATA_EXPECTING_REPLY
        ELSE FRAME_TYPE_BACNET_DATA_NOT_EXPECTING_REPLY,
        pkt.destination_mac, station, pkt.buffer, pkt.length)

\* variant: the newest element is framed instead of the oldest
MSTP_Get_Send_newest(q, buffer, station) ==
    IF Ringbuf_Empty(q)
    THEN [q |-> q, buffer |-> buffer, frame |-> << >>, pdu_len |-> 0]
    ELSE CHOOSE r \in {[q |-> Ringbuf_Pop(q), buffer |-> buffer,
                          frame |-> frame, pdu_len |-> Len(frame)] :
                            frame \in {FrameOf(buffer[SlotOf(q.head - 1)], station)}} : TRUE

MSTP_Get_Send(q, buffer, station) ==
    IF Ringbuf_Empty(q)
    THEN [q |-> q, buffer |-> buffer, frame |-> << >>, pdu_len |-> 0]
    ELSE CHOOSE r \in {[q |-> Ringbuf_Pop(q), buffer |-> buffer,
                          frame |-> frame, pdu_len |-> Len(frame)] :
                            frame \in {FrameOf(buffer[Ringbuf_Peek(q)], station)}} : TRUE

Matches(pkt, input, source) ==
    dlmstp_compare_data_expecting_reply(input, source, pkt.buffer, pkt.destination_mac)

\* variant: the walk looks at one element only
WalkForMatch_once(q, buffer, pkt, input, source) ==
    CHOOSE found \in
        {IF next = NULL THEN NULL
         ELSE IF Matches(buffer[next], input, source) THEN next
         ELSE NULL :
            next \in {Ringbuf_Peek_Next(q, pkt)}} : TRUE

\* the while loop of MSTP_Get_Reply: the first element after pkt that matches,
\* NULL when Ringbuf_Peek_Next runs off the end of the queue
RECURSIVE WalkForMatch(_, _, _, _, _)
WalkForMatch(q, buffer, pkt, input, source) ==
    CHOOSE found \in
        {IF next = NULL THEN NULL
         ELSE IF Matches(buffer[next], input, source) THEN next
         ELSE WalkForMatch(q, buffer, next, input, source) :
            next \in {Ringbuf_Peek_Next(q, pkt)}} : TRUE

\* the element MSTP_Get_Reply settles on: the head when it matches, otherwise
\* the result of the walk
FindReply(q, buffer, input, source) ==
    IF Matches(buffer[Ringbuf_Peek(q)], input, source) THEN Ringbuf_Peek(q)
    ELSE WalkForMatch(q, buffer, Ringbuf_Peek(q), input, source)

\* variant: the oldest element is popped instead of the matched one
ReplyWith_pop_head(q, buffer, pkt, station) ==
    IF pkt = NULL
    THEN [q |-> q, buffer |-> buffer, frame |-> << >>, pdu_len |-> 0]
    ELSE CHOOSE r \in
            {[q |-> Ringbuf_Pop(q), buffer |-> buffer,
              frame |-> frame, pdu_len |-> Len(frame)] :
                frame \in {FrameOf(buffer[pkt], station)}} : TRUE

\* frame the matched element and pop it wherever it is
ReplyWith(q, buffer, pkt, station) ==
    IF pkt = NULL
    THEN [q |-> q, buffer |-> buffer, frame |-> << >>, pdu_len |-> 0]
    ELSE CHOOSE r \in
            {[q |-> popped.q, buffer |-> popped.buffer,
              frame |-> frame, pdu_len |-> Len(frame)] :
                frame \in {FrameOf(buffer[pkt], station)},
                popped \in {Ringbuf_Pop_Element(q, buffer, pkt)}} : TRUE

MSTP_Get_Reply(q, buffer, input, source, station) ==
    IF Ringbuf_Empty(q)
    THEN [q |-> q, buffer |-> buffer, frame |-> << >>, pdu_len |-> 0]
    ELSE CHOOSE r \in {ReplyWith(q, buffer, pkt, station) :
                          pkt \in {FindReply(q, buffer, input, source)}} : TRUE

(***************************************************************************)
(* The receive slot: MSTP_Put_Receive and dlmstp_receive.  sem is the      *)
(* count of the dispatch semaphore Receive_Packet_Flag.                    *)
(***************************************************************************)
ZeroAddress ==
    [mac_len |-> 0, mac |-> Zeros(MAX_MAC_LEN), net |-> 0, len |-> 0,
     adr |-> Zeros(MAX_MAC_LEN)]

Min(a, b) == IF a < b THEN a ELSE b

\* variant: the slot is filled whether or not it is ready
MSTP_Put_Receive_always(slot, sem, input, data_length, source_address) ==
    LET pdu_len == Min(data_length, DLMSTP_MPDU_MAX)
    IN  [slot |-> [ready |-> TRUE,
                   address |-> dlmstp_fill_bacnet_address(source_address),
                   pdu_len |-> data_length,
                   pdu |-> CopyInto(slot.pdu, input, pdu_len)],
         sem |-> sem + 1,
         pdu_len |-> pdu_len]

MSTP_Put_Receive(slot, sem, input, data_length, source_address) ==
    IF ~slot.ready
    THEN LET pdu_len == Min(data_length, DLMSTP_MPDU_MAX)
         IN  [slot |-> [ready |-> TRUE,
                        address |-> dlmstp_fill_bacnet_address(source_address),
                        pdu_len |-> data_length,
                        pdu |-> CopyInto(slot.pdu, input, pdu_len)],
              sem |-> sem + 1,
              pdu_len |-> pdu_len]
    ELSE [slot |-> slot, sem |-> sem, pdu_len |-> 0]

\* variant: ready is left set after the copy
dlmstp_receive_keep_ready(slot, sem, out) ==
    IF sem > 0
    THEN IF slot.ready
         THEN [slot |-> slot,
               sem |-> sem - 1,
               out |-> IF slot.pdu_len # 0
                       THEN [src |-> slot.address, pdu |-> slot.pdu]
                       ELSE out,
               rv |-> 0,
               pdu_len |-> slot.pdu_len]
         ELSE [slot |-> slot, sem |-> sem - 1, out |-> out, rv |-> 0, pdu_len |-> 0]
    ELSE [slot |-> slot, sem |-> sem, out |-> out, rv |-> 1, pdu_len |-> 0]

\* variant: the result of the wait and the ready flag are not looked at
dlmstp_receive_unconditional(slot, sem, out) ==
    [slot |-> [slot EXCEPT !.ready = FALSE],
     sem |-> IF sem > 0 THEN sem - 1 ELSE sem,
     out |-> IF slot.pdu_len # 0
             THEN [src |-> slot.address, pdu |-> slot.pdu]
             ELSE out,
     rv |-> IF sem > 0 THEN 0 ELSE 1,
     pdu_len |-> slot.pdu_len]

\* out is the caller's src and pdu; the wait succeeds (rv = 0) when the
\* semaphore can be decremented and times out (rv = 1) otherwise
dlmstp_receive(slot, sem, out) ==
    IF sem > 0
    THEN IF slot.ready
         THEN [slot |-> [slot EXCEPT !.ready = FALSE],
               sem |-> sem - 1,
               out |-> IF slot.pdu_len # 0
                       THEN [src |-> slot.address, pdu |-> slot.pdu]
                       ELSE out,
               rv |-> 0,
               pdu_len |-> slot.pdu_len]
         ELSE [slot |-> slot, sem |-> sem - 1, out |-> out, rv |-> 0, pdu_len |-> 0]
    ELSE [slot |-> slot, sem |-> sem, out |-> out, rv |-> 1, pdu_len |-> 0]

(***************************************************************************)
(* Configuration setters.                                                  *)
(***************************************************************************)
\* variant: This_Station is not looked at
dlmstp_set_max_master_any(station, max_master_now, max_master) ==
    IF max_master <= 127 THEN max_master ELSE max_master_now

dlmstp_set_max_master(station, max_master_now, max_master) ==
    IF max_master <= 127 /\ station <= max_master THEN max_master ELSE max_master_now

dlmstp_set_mac_address(station, max_master_now, mac_address) ==
    IF mac_address <= 127
    THEN [This_Station |-> mac_address,
          Nmax_master |-> IF mac_address > max_master_now
                          THEN dlmstp_set_max_master(mac_address, max_master_now, mac_address)
                          ELSE max_master_now]
    ELSE [This_Station |-> station, Nmax_master |-> max_master_now]

(***************************************************************************)
(* State.                                                                  *)
(***************************************************************************)
VARIABLES
    PDU_Queue,            \* head and tail of the ring
    PDU_Buffer,           \* the ring's elements, by slot
    This_Station,
    Nmax_master,
    InputBuffer,          \* data octets of the frame last received
    DataLength,
    SourceAddress,
    OutputBuffer,         \* the frame last built
    Receive_Packet,       \* the receive slot
    Receive_Packet_Flag,  \* count of the receive semaphore
    caller,               \* the src and pdu buffers the upper layer passes to receive
    call,                 \* the operation performed last and what it returned
    accepted,             \* history: the PDUs send_pdu accepted, in order
    framed,               \* history: the frames Get_Send built, in order
    deposited,            \* history: the frame in the slot awaiting receive
    prod,                 \* the producer threads inside dlmstp_send_pdu
    cmp,                  \* inputs and result of the evaluation of a function
    Nmax_info_frames,
    RS485_Baud,           \* the termios speed stored by dlmstp_set_baud_rate
    mbox,                 \* the two tasks using the receive slot, statement by statement
    master,               \* dlmstp_master_fsm_task: its locals and what it reads
    rx                    \* the Receive Frame FSM and the octets on the wire

queueVars == <<PDU_Queue, PDU_Buffer>>
portVars == <<This_Station, Nmax_master, Nmax_info_frames, RS485_Baud>>
inputVars == <<InputBuffer, DataLength, SourceAddress>>
slotVars == <<Receive_Packet, Receive_Packet_Flag, caller, deposited>>
histVars == <<accepted, framed>>
taskVars == <<mbox, master, rx>>

vars == <<PDU_Queue, PDU_Buffer, This_Station, Nmax_master, InputBuffer, DataLength,
          SourceAddress, OutputBuffer, Receive_Packet, Receive_Packet_Flag, caller,
          call, accepted, framed, deposited, prod, cmp, Nmax_info_frames,
          RS485_Baud, mbox, master, rx>>

(***************************************************************************)
(* Inputs explored.                                                        *)
(***************************************************************************)
\* version 1, control with data-expecting-reply, Confirmed-Request, invoke 1, service 12
RequestPdu == <<1, 4, 0, 5, 1, 12>>
\* Simple-ACK for invoke 1, service 12
AckPdu == <<1, 0, 32, 1, 12>>
\* Simple-ACK for invoke 2
OtherAckPdu == <<1, 0, 32, 2, 12>>
\* Unconfirmed-Request
UnconfirmedPdu == <<1, 0, 16, 8>>

\* a unicast destination and the address dlmstp_get_broadcast_address returns
UnicastDest(mac) ==
    [mac_len |-> 1, mac |-> [i \in 1..MAX_MAC_LEN |-> IF i = 1 THEN mac ELSE 0],
     net |-> 0, len |-> 0, adr |-> Zeros(MAX_MAC_LEN)]

BroadcastDest ==
    [mac_len |-> 1,
     mac |-> [i \in 1..MAX_MAC_LEN |-> IF i = 1 THEN MSTP_BROADCAST_ADDRESS ELSE 0],
     net |-> 65535, len |-> 0, adr |-> Zeros(MAX_MAC_LEN)]

\* calls of dlmstp_send_pdu explored on the reply path
ReplySends == {[dest |-> UnicastDest(2), pdu |-> AckPdu],
               [dest |-> UnicastDest(2), pdu |-> OtherAckPdu],
               [dest |-> BroadcastDest, pdu |-> AckPdu]}

\* calls of dlmstp_send_pdu explored on the send path
FifoSends == {[dest |-> UnicastDest(2), pdu |-> RequestPdu],
              [dest |-> BroadcastDest, pdu |-> AckPdu],
              [dest |-> UnicastDest(3), pdu |-> <<1>>],
              [dest |-> UnicastDest(3), pdu |-> << >>]}

\* what a read of pdu[1] yields: the octet when the PDU has one, otherwise
\* whatever follows the caller's data
ControlOctets(pdu) == IF Len(pdu) > BACNET_PDU_CONTROL_BYTE_OFFSET
                      THEN {At(pdu, BACNET_PDU_CONTROL_BYTE_OFFSET)}
                      ELSE {0, 4}

\* frames the Receive Frame FSM hands over: data octets and source station
ReceivedFrames == {[data |-> RequestPdu, source |-> 2],
                   [data |-> UnconfirmedPdu, source |-> 3],
                   [data |-> << >>, source |-> 2]}

MacAddresses == {1, 200}

(***************************************************************************)
(* Initial state: after dlmstp_init.                                       *)
(***************************************************************************)
NoThreads == << >>

InitPort ==
    /\ PDU_Queue = [head |-> 0, tail |-> 0]
    /\ PDU_Buffer = [s \in Slots |-> EmptyPacket]
    /\ This_Station = 127
    /\ Nmax_master = 127
    /\ InputBuffer = Zeros(DLMSTP_MPDU_MAX)
    /\ DataLength = 0
    /\ SourceAddress = 0
    /\ OutputBuffer = << >>
    /\ Receive_Packet = [ready |-> FALSE, address |-> ZeroAddress, pdu_len |-> 0,
                         pdu |-> Zeros(DLMSTP_MPDU_MAX)]
    /\ Receive_Packet_Flag = 0
    /\ caller = [src |-> ZeroAddress, pdu |-> Zeros(DLMSTP_MPDU_MAX)]
    /\ call = [op |-> "init", ret |-> 0]
    /\ accepted = << >>
    /\ framed = << >>
    /\ deposited = << >>
    /\ Nmax_info_frames = 1

\* no task of the port is running and the serial line is at the default speed
InitIdle ==
    /\ RS485_Baud = "B38400"
    /\ mbox = [op |-> "none"]
    /\ master = [op |-> "none"]
    /\ rx = [op |-> "none"]

Init ==
    /\ InitPort
    /\ InitIdle
    /\ prod = NoThreads
    /\ cmp = [op |-> "none"]

(***************************************************************************)
(* Actions on the PDU ring.                                                *)
(***************************************************************************)
SendPdu(dest, pdu, control) ==
    \E r \in {dlmstp_send_pdu(PDU_Queue, PDU_Buffer, dest, pdu, Len(pdu), control)} :
        /\ PDU_Queue.head < MaxSends \/ Ringbuf_Full(PDU_Queue)
        /\ PDU_Queue' = r.q
        /\ PDU_Buffer' = r.buffer
        /\ call' = [op |-> "send_pdu", ret |-> r.bytes_sent, dest |-> dest, pdu |-> pdu,
                    control |-> control]
        /\ UNCHANGED <<portVars, inputVars, OutputBuffer, slotVars, prod, cmp, taskVars>>

GetSendStep ==
    \E r \in {MSTP_Get_Send(PDU_Queue, PDU_Buffer, This_Station)} :
        /\ PDU_Queue' = r.q
        /\ PDU_Buffer' = r.buffer
        /\ OutputBuffer' = IF r.pdu_len # 0 THEN r.frame ELSE OutputBuffer
        /\ call' = [op |-> "Get_Send", ret |-> r.pdu_len]
        /\ UNCHANGED <<portVars, inputVars, slotVars, prod, cmp, taskVars>>

\* position in the queue, oldest = 1, of the element in slot pkt; 0 for NULL
PositionOf(q, pkt) ==
    IF pkt = NULL THEN 0
    ELSE CHOOSE i \in 1..Ringbuf_Count(q) : SlotOf(q.tail + i - 1) = pkt

GetReply ==
    \E r \in {MSTP_Get_Reply(PDU_Queue, PDU_Buffer, InputBuffer, SourceAddress,
                               This_Station)} :
        /\ PDU_Queue' = r.q
        /\ PDU_Buffer' = r.buffer
        /\ OutputBuffer' = IF r.pdu_len # 0 THEN r.frame ELSE OutputBuffer
        /\ call' = [op |-> "Get_Reply", ret |-> r.pdu_len,
                    at |-> IF Ringbuf_Empty(PDU_Queue) THEN 0
                           ELSE PositionOf(PDU_Queue,
                                    FindReply(PDU_Queue, PDU_Buffer, InputBuffer,
                                              SourceAddress))]
        /\ UNCHANGED <<portVars, inputVars, slotVars, histVars, prod, cmp, taskVars>>

\* the Receive Frame FSM completes a frame with data
FrameArrives(f) ==
    /\ InputBuffer' = CopyInto(InputBuffer, f.data, Len(f.data))
    /\ DataLength' = Len(f.data)
    /\ SourceAddress' = f.source
    /\ call' = [op |-> "frame", ret |-> 0]
    /\ UNCHANGED <<queueVars, portVars, OutputBuffer, slotVars, histVars, prod, cmp, taskVars>>

SetMac ==
    \E mac \in MacAddresses :
    \E r \in {dlmstp_set_mac_address(This_Station, Nmax_master, mac)} :
        /\ This_Station' = r.This_Station
        /\ Nmax_master' = r.Nmax_master
        /\ call' = [op |-> "set_mac_address", ret |-> 0]
        /\ UNCHANGED <<Nmax_info_frames, RS485_Baud>>
        /\ UNCHANGED <<queueVars, inputVars, OutputBuffer, slotVars, histVars, prod, cmp, taskVars>>

Send == \E in \in ReplySends : \E control \in ControlOctets(in.pdu) :
            SendPdu(in.dest, in.pdu, control) /\ UNCHANGED histVars

GetSend == GetSendStep /\ UNCHANGED histVars

Frame == \E f \in ReceivedFrames : FrameArrives(f)

Next == Send \/ GetSend \/ GetReply \/ Frame

Spec == Init /\ [][Next]_vars

(***************************************************************************)
(* The send path with its history: what dlmstp_send_pdu put in the ring    *)
(* and what MSTP_Get_Send framed, in order.                                *)
(***************************************************************************)
\* fields of an MS/TP frame: preamble 55 FF, type, destination, source,
\* length high and low, header CRC, data, data CRC
FrameType(frame) == At(frame, 2)
FrameDestination(frame) == At(frame, 3)
FrameSource(frame) == At(frame, 4)
FrameLength(frame) == At(frame, 5) * 256 + At(frame, 6)
FramePayload(frame) == SubSeq(frame, FRAME_HEADER_SIZE + 1,
                              FRAME_HEADER_SIZE + FrameLength(frame))

FifoSend ==
    \E in \in FifoSends : \E control \in ControlOctets(in.pdu) :
        /\ SendPdu(in.dest, in.pdu, control)
        /\ accepted' = IF PDU_Queue'.head > PDU_Queue.head
                       THEN Append(accepted, [destination |-> in.dest.mac[1],
                                              pdu |-> in.pdu, control |-> control])
                       ELSE accepted
        /\ framed' = framed

FifoGetSend ==
    /\ GetSendStep
    /\ framed' = IF PDU_Queue'.tail > PDU_Queue.tail
                 THEN Append(framed,
                        IF call'.ret # 0
                        THEN [built |-> TRUE,
                              destination |-> FrameDestination(OutputBuffer'),
                              data |-> FramePayload(OutputBuffer')]
                        ELSE [built |-> FALSE])
                 ELSE framed
    /\ accepted' = accepted

NextFifo == FifoSend \/ FifoGetSend \/ SetMac

SpecFifo == Init /\ [][NextFifo]_vars

(***************************************************************************)
(* The receive slot: the Receive Frame FSM completes frames, the Master    *)
(* FSM hands them to MSTP_Put_Receive, the upper layer calls               *)
(* dlmstp_receive.                                                         *)
(***************************************************************************)
PutReceive ==
    \E r \in {MSTP_Put_Receive(Receive_Packet, Receive_Packet_Flag, InputBuffer,
                                 DataLength, SourceAddress)} :
        /\ Receive_Packet' = r.slot
        /\ Receive_Packet_Flag' = r.sem
        /\ deposited' = IF Receive_Packet.ready THEN deposited
                        ELSE <<[data |-> Prefix(InputBuffer, DataLength),
                                length |-> DataLength, source |-> SourceAddress]>>
        /\ call' = [op |-> "Put_Receive", ret |-> r.pdu_len]
        /\ UNCHANGED <<queueVars, portVars, inputVars, OutputBuffer, caller, histVars,
                       prod, cmp, taskVars>>

Receive ==
    \E r \in {dlmstp_receive(Receive_Packet, Receive_Packet_Flag, caller)} :
        /\ Receive_Packet' = r.slot
        /\ Receive_Packet_Flag' = r.sem
        /\ caller' = r.out
        /\ deposited' = << >>
        /\ call' = [op |-> "receive", ret |-> r.pdu_len, rv |-> r.rv]
        /\ UNCHANGED <<queueVars, portVars, inputVars, OutputBuffer, histVars, prod, cmp, taskVars>>

NextSlot == Frame \/ PutReceive \/ Receive

SpecSlot == Init /\ [][NextSlot]_vars

(***************************************************************************)
(* The reply-match predicate on its own: a request as the Receive Frame    *)
(* FSM left it in InputBuffer, a reply as dlmstp_send_pdu left it in a     *)
(* packet of the ring.                                                     *)
(***************************************************************************)
Pad(pdu) == pdu \o Zeros(DLMSTP_MPDU_MAX - Len(pdu))

\* Confirmed-Request, invoke 1, service 12, from network 7 station 9
RoutedRequestPdu == <<1, 12, 0, 7, 1, 9, 0, 5, 1, 12>>

CompareRequests ==
    {RequestPdu,
     <<1, 4, 8, 5, 1, 0, 0, 12>>,       \* segmented Confirmed-Request
     <<1, 132, 0, 5, 1, 12>>,           \* network-layer message
     <<1, 4, 16, 8, 1, 12>>,            \* Unconfirmed-Request
     <<2, 4, 0, 5, 1, 12>>,             \* protocol version 2
     RoutedRequestPdu}

CompareReplies ==
    {AckPdu,
     OtherAckPdu,
     <<1, 0, 32, 1, 13>>,               \* Simple-ACK, another service
     <<1, 0, 48, 1, 12>>,               \* Complex-ACK
     <<1, 0, 48, 1, 13>>,               \* Complex-ACK, another service
     <<1, 0, 56, 1, 0, 0, 12>>,         \* segmented Complex-ACK
     <<1, 0, 80, 1, 12>>,               \* Error
     <<1, 0, 80, 1, 13>>,               \* Error, another service
     <<1, 0, 96, 1, 3>>,                \* Reject
     <<1, 0, 112, 1, 3>>,               \* Abort
     <<1, 0, 64, 1, 0, 0>>,             \* Segment-ACK
     <<1, 0, 64, 2, 0, 0>>,             \* Segment-ACK, another invoke id
     RequestPdu,                        \* Confirmed-Request
     <<1, 4, 0, 5, 1, 13>>,             \* Confirmed-Request, another service
     UnconfirmedPdu,
     <<1, 128, 0, 1, 12>>,              \* network-layer message
     <<2, 0, 32, 1, 12>>,               \* protocol version 2
     <<1, 32, 0, 7, 1, 9, 255, 32, 1, 12>>}   \* Simple-ACK to network 7 station 9

CompareStations == {2, 3}

InitCompare ==
    /\ InitPort
    /\ InitIdle
    /\ prod = NoThreads
    /\ cmp \in [op : {"given"}, request : CompareRequests, src_address : CompareStations,
                reply : CompareReplies, dest_address : CompareStations]

Compare ==
    /\ cmp.op = "given"
    /\ cmp' = [op |-> "compared", request |-> cmp.request,
               src_address |-> cmp.src_address, reply |-> cmp.reply,
               dest_address |-> cmp.dest_address,
               result |-> dlmstp_compare_data_expecting_reply(
                              Pad(cmp.request), cmp.src_address,
                              Pad(cmp.reply), cmp.dest_address)]
    /\ UNCHANGED <<queueVars, portVars, inputVars, OutputBuffer, slotVars, call,
                   histVars, prod, taskVars>>

NextCompare == Compare

SpecCompare == InitCompare /\ [][NextCompare]_vars

(***************************************************************************)
(* Upper-layer threads inside dlmstp_send_pdu, one statement at a time.    *)
(***************************************************************************)
MaxCalls == 2

Threads == {1, 2}

ThreadSend(t) == IF t = 1 THEN [dest |-> UnicastDest(2), pdu |-> AckPdu]
                 ELSE [dest |-> UnicastDest(3), pdu |-> RequestPdu]

InitProducers ==
    /\ InitPort
    /\ InitIdle
    /\ prod = [t \in Threads |-> [pc |-> "idle", pkt |-> NULL, calls |-> 0,
                                  bytes_sent |-> 0]]
    /\ cmp = [op |-> "none"]

ProducerStep(t, next) ==
    /\ prod' = [prod EXCEPT ![t] = next]
    /\ UNCHANGED <<portVars, inputVars, OutputBuffer, slotVars, histVars, cmp, taskVars>>

\* entry: bytes_sent = 0
P_Call(t) ==
    /\ prod[t].pc = "idle"
    /\ prod[t].calls < MaxCalls
    /\ ProducerStep(t, [prod[t] EXCEPT !.pc = "peek", !.calls = @ + 1,
                                       !.bytes_sent = 0, !.pkt = NULL])
    /\ UNCHANGED <<queueVars, call>>

\* variant: the element is committed as soon as it is handed out
P_Peek_commit(t) ==
    /\ prod[t].pc = "peek"
    /\ \E pkt \in {Ringbuf_Data_Peek(PDU_Queue)} :
          /\ ProducerStep(t, [prod[t] EXCEPT !.pkt = pkt,
                                 !.pc = IF pkt = NULL THEN "return" ELSE "flag"])
          /\ PDU_Queue' = IF pkt = NULL THEN PDU_Queue
                          ELSE Ringbuf_Data_Put(PDU_Queue, pkt).q
    /\ UNCHANGED <<PDU_Buffer, call>>

\* pkt = Ringbuf_Data_Peek(&PDU_Queue); if (pkt)
P_Peek(t) ==
    /\ prod[t].pc = "peek"
    /\ \E pkt \in {Ringbuf_Data_Peek(PDU_Queue)} :
          ProducerStep(t, [prod[t] EXCEPT !.pkt = pkt,
                             !.pc = IF pkt = NULL THEN "return" ELSE "flag"])
    /\ UNCHANGED <<queueVars, call>>

\* pkt->data_expecting_reply = BACNET_DATA_EXPECTING_REPLY(pdu[1])
P_Flag(t) ==
    /\ prod[t].pc = "flag"
    /\ PDU_Buffer' = [PDU_Buffer EXCEPT ![prod[t].pkt].data_expecting_reply =
           BACNET_DATA_EXPECTING_REPLY(
               At(ThreadSend(t).pdu, BACNET_PDU_CONTROL_BYTE_OFFSET))]
    /\ ProducerStep(t, [prod[t] EXCEPT !.pc = "copy"])
    /\ UNCHANGED <<PDU_Queue, call>>

\* for (i = 0; i < pdu_len; i++) pkt->buffer[i] = pdu[i]
P_Copy(t) ==
    /\ prod[t].pc = "copy"
    /\ PDU_Buffer' = [PDU_Buffer EXCEPT ![prod[t].pkt].buffer =
           CopyInto(@, ThreadSend(t).pdu, Len(ThreadSend(t).pdu))]
    /\ ProducerStep(t, [prod[t] EXCEPT !.pc = "length"])
    /\ UNCHANGED <<PDU_Queue, call>>

\* pkt->length = pdu_len
P_Length(t) ==
    /\ prod[t].pc = "length"
    /\ PDU_Buffer' = [PDU_Buffer EXCEPT ![prod[t].pkt].length = Len(ThreadSend(t).pdu)]
    /\ ProducerStep(t, [prod[t] EXCEPT !.pc = "mac"])
    /\ UNCHANGED <<PDU_Queue, call>>

\* pkt->destination_mac = dest->mac[0]
P_Mac(t) ==
    /\ prod[t].pc = "mac"
    /\ PDU_Buffer' = [PDU_Buffer EXCEPT ![prod[t].pkt].destination_mac =
           ThreadSend(t).dest.mac[1]]
    /\ ProducerStep(t, [prod[t] EXCEPT !.pc = "put"])
    /\ UNCHANGED <<PDU_Queue, call>>

\* if (Ringbuf_Data_Put(&PDU_Queue, pkt)) bytes_sent = pdu_len
P_Put(t) ==
    /\ prod[t].pc = "put"
    /\ \E put \in {Ringbuf_Data_Put(PDU_Queue, prod[t].pkt)} :
          /\ PDU_Queue' = put.q
          /\ ProducerStep(t, [prod[t] EXCEPT !.pc = "return",
                 !.bytes_sent = IF put.status THEN Len(ThreadSend(t).pdu) ELSE 0])
    /\ UNCHANGED <<PDU_Buffer, call>>

\* return bytes_sent
P_Return(t) ==
    /\ prod[t].pc = "return"
    /\ call' = [op |-> "send_pdu", ret |-> prod[t].bytes_sent, thread |-> t]
    /\ ProducerStep(t, [prod[t] EXCEPT !.pc = "idle"])
    /\ UNCHANGED queueVars

Call == \E t \in Threads : P_Call(t)
Peek == \E t \in Threads : P_Peek(t)
Flag == \E t \in Threads : P_Flag(t)
Copy == \E t \in Threads : P_Copy(t)
Length == \E t \in Threads : P_Length(t)
Mac == \E t \in Threads : P_Mac(t)
Put == \E t \in Threads : P_Put(t)
Return == \E t \in Threads : P_Return(t)

NextProducers == Call \/ Peek \/ Flag \/ Copy \/ Length \/ Mac \/ Put \/ Return

SpecProducers == InitProducers /\ [][NextProducers]_vars

(***************************************************************************)
(* Properties of the PDU ring.                                             *)
(***************************************************************************)
Queue == QueueOf(PDU_Queue, PDU_Buffer)

\* the payload octets of a queued packet
PayloadOf(pkt) == Prefix(pkt.buffer, pkt.length)

\* C1: dlmstp_send_pdu on a ring holding MSTP_PDU_PACKET_COUNT packets
\* returns 0 and leaves every queued packet as it was; otherwise it appends
\* exactly one packet, the caller's, behind the queued ones and returns
\* pdu_len.  The ring never holds more than MSTP_PDU_PACKET_COUNT packets.
C1_SendPduFullOrAppend ==
    /\ [][call'.op = "send_pdu" =>
            IF Ringbuf_Count(PDU_Queue) = MSTP_PDU_PACKET_COUNT
            THEN /\ call'.ret = 0
                 /\ PDU_Queue' = PDU_Queue
                 /\ PDU_Buffer' = PDU_Buffer
            ELSE LET before == Queue
                     after == QueueOf(PDU_Queue', PDU_Buffer')
                     added == after[Len(after)]
                 IN  /\ Len(after) = Len(before) + 1
                     /\ \A i \in 1..Len(before) : after[i] = before[i]
                     /\ added.length = Len(call'.pdu)
                     /\ PayloadOf(added) = call'.pdu
                     /\ added.destination_mac = call'.dest.mac[1]
                     /\ call'.ret = Len(call'.pdu)]_vars
    /\ [](Ringbuf_Count(PDU_Queue) <= MSTP_PDU_PACKET_COUNT)

\* a PDU was turned away by a full ring that has wrapped around
C1_RejectedWhenFull ==
    /\ call.op = "send_pdu"
    /\ call.ret = 0
    /\ Len(call.pdu) > 0
    /\ Ringbuf_Count(PDU_Queue) = MSTP_PDU_PACKET_COUNT
    /\ PDU_Queue.tail > 0

\* the queued packets that answer the request in InputBuffer
MatchingPositions(queue) ==
    {i \in 1..Len(queue) : Matches(queue[i], InputBuffer, SourceAddress)}

First(positions) == CHOOSE i \in positions : \A j \in positions : i <= j

Without(queue, m) == [i \in 1..(Len(queue) - 1) |->
                         IF i < m THEN queue[i] ELSE queue[i + 1]]

\* C4: after MSTP_Get_Reply the queue is the queue before the call with the
\* first matching packet removed, the others unchanged and in their order;
\* with no matching packet the call returns 0 and the queue is unchanged.
C4_GetReplyRemovesFirstMatch ==
    [][call'.op = "Get_Reply" =>
          LET before == Queue
              after == QueueOf(PDU_Queue', PDU_Buffer')
              matching == MatchingPositions(before)
          IN  IF matching = {}
              THEN call'.ret = 0 /\ after = before
              ELSE /\ Len(after) = Len(before) - 1
                   /\ after = Without(before, First(matching))]_vars

\* the last of three packets was removed and two different ones stay behind
C4_RemovedBehindTwoOthers ==
    /\ call.op = "Get_Reply"
    /\ call.at = 3
    /\ Ringbuf_Count(PDU_Queue) = 2
    /\ Queue[1] # Queue[2]
    /\ PDU_Queue.head > MSTP_PDU_PACKET_COUNT

SixConditions(request_pdu, src_address, reply_pdu, dest_address) ==
    LET req == bacnet_npdu_decode(request_pdu)
        rep == bacnet_npdu_decode(reply_pdu)
        request_type == HighNibble(At(request_pdu, req.offset))
        reply_type == HighNibble(At(reply_pdu, rep.offset))
        segmented(pdu, offset) == BIT(At(pdu, offset), 3)
        \* a Confirmed-Request carries max-segments/max-APDU before the invoke id
        confirmed_invoke(pdu, offset) == At(pdu, offset + 2)
        confirmed_service(pdu, offset) ==
            IF segmented(pdu, offset) THEN At(pdu, offset + 5) ELSE At(pdu, offset + 3)
        reply_invoke == IF reply_type = PDU_TYPE_CONFIRMED_SERVICE_REQUEST
                        THEN confirmed_invoke(reply_pdu, rep.offset)
                        ELSE At(reply_pdu, rep.offset + 1)
        reply_service ==
            IF reply_type = PDU_TYPE_CONFIRMED_SERVICE_REQUEST
            THEN confirmed_service(reply_pdu, rep.offset)
            ELSE IF reply_type = PDU_TYPE_COMPLEX_ACK /\ segmented(reply_pdu, rep.offset)
            THEN At(reply_pdu, rep.offset + 4)
            ELSE At(reply_pdu, rep.offset + 2)
    IN  /\ ~req.network_layer_message
        /\ request_type = PDU_TYPE_CONFIRMED_SERVICE_REQUEST
        /\ ~rep.network_layer_message
        /\ req.protocol_version = rep.protocol_version
        /\ bacnet_address_same(WithSpecifier(LocalAddress(src_address), req.src),
                               WithSpecifier(LocalAddress(dest_address), rep.dest))
        /\ reply_type \in {PDU_TYPE_SIMPLE_ACK, PDU_TYPE_COMPLEX_ACK, PDU_TYPE_ERROR,
                           PDU_TYPE_CONFIRMED_SERVICE_REQUEST, PDU_TYPE_REJECT,
                           PDU_TYPE_ABORT, PDU_TYPE_SEGMENT_ACK}
        /\ confirmed_invoke(request_pdu, req.offset) = reply_invoke
        /\ reply_type \in {PDU_TYPE_SIMPLE_ACK, PDU_TYPE_COMPLEX_ACK, PDU_TYPE_ERROR,
                           PDU_TYPE_CONFIRMED_SERVICE_REQUEST} =>
               confirmed_service(request_pdu, req.offset) = reply_service

\* C5: dlmstp_compare_data_expecting_reply returns true exactly when the six
\* conditions hold; a reply of type Confirmed-Request with equal invoke id
\* and service choice matches.
C5_CompareIffSixConditions ==
    cmp.op = "compared" =>
        (cmp.result <=> SixConditions(Pad(cmp.request), cmp.src_address,
                                      Pad(cmp.reply), cmp.dest_address))

(***************************************************************************)
(* Properties of the receive slot.                                         *)
(***************************************************************************)
\* C6: with ready set MSTP_Put_Receive returns 0, leaves the slot as it is
\* and does not signal the semaphore; a ready slot holds the frame that was
\* deposited in it.
C6_PutReceiveDropsWhenReady ==
    /\ [][call'.op = "Put_Receive" /\ Receive_Packet.ready =>
            /\ call'.ret = 0
            /\ Receive_Packet' = Receive_Packet
            /\ Receive_Packet_Flag' = Receive_Packet_Flag]_vars
    /\ [](Receive_Packet.ready =>
            /\ deposited # << >>
            /\ Receive_Packet.pdu_len = deposited[1].length
            /\ Prefix(Receive_Packet.pdu, deposited[1].length) = deposited[1].data
            /\ Receive_Packet.address.mac[1] = deposited[1].source)

\* a frame with data, different from the one waiting, was dropped
C6_DroppedFrame ==
    /\ call.op = "Put_Receive"
    /\ call.ret = 0
    /\ DataLength # 0
    /\ Receive_Packet.ready
    /\ deposited[1].data # Prefix(InputBuffer, DataLength)

\* C7: after a deposit of a frame with data, the next dlmstp_receive does
\* not time out, returns the frame's length, its octets and the address
\* built from its source station, and clears ready; a dlmstp_receive with
\* nothing deposited since the last one returns 0.
C7_ReceiveReturnsDepositedOnce ==
    [][call'.op = "receive" =>
          IF deposited # << >>
          THEN deposited[1].length # 0 =>
                  /\ call'.rv = 0
                  /\ call'.ret = deposited[1].length
                  /\ Prefix(caller'.pdu, deposited[1].length) = deposited[1].data
                  /\ caller'.src.mac_len = 1
                  /\ caller'.src.mac[1] = deposited[1].source
                  /\ caller'.src.net = 0
                  /\ caller'.src.len = 0
                  /\ ~Receive_Packet'.ready
          ELSE call'.ret = 0]_vars

\* the upper layer received the request frame from station 2
C7_ReceivedRequest ==
    /\ call.op = "receive"
    /\ call.ret = Len(RequestPdu)
    /\ Prefix(caller.pdu, call.ret) = RequestPdu
    /\ caller.src.mac[1] = 2
    /\ ~Receive_Packet.ready

\* C8: a dlmstp_receive whose wait expires with nothing deposited returns 0
\* and leaves the slot, the semaphore count and the caller's buffers alone.
C8_ReceiveTimeoutChangesNothing ==
    [][call'.op = "receive" /\ deposited = << >> =>
          /\ call'.ret = 0
          /\ call'.rv # 0
          /\ Receive_Packet' = Receive_Packet
          /\ Receive_Packet_Flag' = Receive_Packet_Flag
          /\ caller' = caller]_vars

\* the wait expired while the slot still held the octets of a delivered frame
C8_TimedOutAfterDelivery ==
    /\ call.op = "receive"
    /\ call.rv # 0
    /\ call.ret = 0
    /\ Receive_Packet.pdu_len # 0
    /\ caller.pdu # Zeros(DLMSTP_MPDU_MAX)

(***************************************************************************)
(* Concurrent producers.                                                   *)
(***************************************************************************)
\* the packet thread t hands to dlmstp_send_pdu, as a ring element holds it
HoldsPacketOf(pkt, t) ==
    /\ pkt.length = Len(ThreadSend(t).pdu)
    /\ PayloadOf(pkt) = ThreadSend(t).pdu
    /\ pkt.destination_mac = ThreadSend(t).dest.mac[1]
    /\ pkt.data_expecting_reply =
          BIT(At(ThreadSend(t).pdu, BACNET_PDU_CONTROL_BYTE_OFFSET), 2)

\* C10: with concurrent callers of dlmstp_send_pdu, a call about to return
\* non-zero has its own packet in the ring: no other producer has written
\* over it or taken its place.
C10_AcceptedPduIsQueued ==
    \A t \in DOMAIN prod :
        (prod[t].pc = "return" /\ prod[t].bytes_sent # 0)
            => \E i \in 1..Len(Queue) : HoldsPacketOf(Queue[i], t)

(***************************************************************************)
(* The receive slot under concurrency: the task running the Master FSM is  *)
(* inside MSTP_Put_Receive, the upper layer inside dlmstp_receive, one     *)
(* statement at a time.  The semaphore is created with count 0.            *)
(***************************************************************************)
\* variant: the slot is taken to be free whatever ready says
SlotFree_always(slot) == TRUE

\* if (!Receive_Packet.ready)
SlotFree(slot) == ~slot.ready

InitMailbox ==
    /\ InitPort
    /\ prod = NoThreads
    /\ cmp = [op |-> "none"]
    /\ RS485_Baud = "B38400"
    /\ master = [op |-> "none"]
    /\ rx = [op |-> "none"]
    /\ mbox = [put |-> [pc |-> "idle", pdu_len |-> 0],
               rcv |-> [pc |-> "idle", rv |-> 0, pdu_len |-> 0]]

MailboxOthers == <<queueVars, portVars, OutputBuffer, histVars, prod, cmp, master, rx,
                   deposited, call>>

PutAt(pc) == mbox.put.pc = pc
PutGoes(pc) == mbox' = [mbox EXCEPT !.put.pc = pc]
RcvAt(pc) == mbox.rcv.pc = pc
RcvGoes(pc) == mbox' = [mbox EXCEPT !.rcv.pc = pc]

\* a frame is complete and the Master FSM calls MSTP_Put_Receive: pdu_len = 0
M_Call ==
    \E f \in ReceivedFrames :
        /\ PutAt("idle")
        /\ InputBuffer' = CopyInto(InputBuffer, f.data, Len(f.data))
        /\ DataLength' = Len(f.data)
        /\ SourceAddress' = f.source
        /\ mbox' = [mbox EXCEPT !.put.pc = "check", !.put.pdu_len = 0]
        /\ UNCHANGED <<MailboxOthers, Receive_Packet, Receive_Packet_Flag, caller>>

\* if (!Receive_Packet.ready) { pdu_len = DataLength, limited to sizeof(pdu)
M_Check ==
    /\ PutAt("check")
    /\ mbox' = IF SlotFree(Receive_Packet)
               THEN [mbox EXCEPT !.put.pc = "copy",
                                 !.put.pdu_len = Min(DataLength, DLMSTP_MPDU_MAX)]
               ELSE [mbox EXCEPT !.put.pc = "return"]
    /\ UNCHANGED <<MailboxOthers, inputVars, Receive_Packet, Receive_Packet_Flag, caller>>

\* memmove(&Receive_Packet.pdu[0], &InputBuffer[0], pdu_len)
M_Copy ==
    /\ PutAt("copy")
    /\ Receive_Packet' = [Receive_Packet EXCEPT
                             !.pdu = CopyInto(@, InputBuffer, mbox.put.pdu_len)]
    /\ PutGoes("address")
    /\ UNCHANGED <<MailboxOthers, inputVars, Receive_Packet_Flag, caller>>

\* dlmstp_fill_bacnet_address(&Receive_Packet.address, SourceAddress)
M_Address ==
    /\ PutAt("address")
    /\ Receive_Packet' = [Receive_Packet EXCEPT
                             !.address = dlmstp_fill_bacnet_address(SourceAddress)]
    /\ PutGoes("len")
    /\ UNCHANGED <<MailboxOthers, inputVars, Receive_Packet_Flag, caller>>

\* Receive_Packet.pdu_len = DataLength
M_Len ==
    /\ PutAt("len")
    /\ Receive_Packet' = [Receive_Packet EXCEPT !.pdu_len = DataLength]
    /\ PutGoes("ready")
    /\ UNCHANGED <<MailboxOthers, inputVars, Receive_Packet_Flag, caller>>

\* Receive_Packet.ready = true
M_Ready ==
    /\ PutAt("ready")
    /\ Receive_Packet' = [Receive_Packet EXCEPT !.ready = TRUE]
    /\ PutGoes("signal")
    /\ UNCHANGED <<MailboxOthers, inputVars, Receive_Packet_Flag, caller>>

\* dispatch_semaphore_signal(Receive_Packet_Flag)
M_Signal ==
    /\ PutAt("signal")
    /\ Receive_Packet_Flag' = Receive_Packet_Flag + 1
    /\ PutGoes("return")
    /\ UNCHANGED <<MailboxOthers, inputVars, Receive_Packet, caller>>

\* return pdu_len
M_Return ==
    /\ PutAt("return")
    /\ PutGoes("idle")
    /\ UNCHANGED <<MailboxOthers, inputVars, Receive_Packet, Receive_Packet_Flag, caller>>

\* the upper layer calls dlmstp_receive: pdu_len = 0
R_Call ==
    /\ RcvAt("idle")
    /\ mbox' = [mbox EXCEPT !.rcv.pc = "wait", !.rcv.pdu_len = 0]
    /\ UNCHANGED <<MailboxOthers, inputVars, Receive_Packet, Receive_Packet_Flag, caller>>

\* rv = dispatch_semaphore_wait(...): 0 once the count could be decremented,
\* non-zero when the wait expires with the count at 0
R_Wait ==
    /\ RcvAt("wait")
    /\ IF Receive_Packet_Flag > 0
       THEN /\ Receive_Packet_Flag' = Receive_Packet_Flag - 1
            /\ mbox' = [mbox EXCEPT !.rcv.pc = "check", !.rcv.rv = 0]
       ELSE /\ Receive_Packet_Flag' = Receive_Packet_Flag
            /\ mbox' = [mbox EXCEPT !.rcv.pc = "return", !.rcv.rv = 1]
    /\ UNCHANGED <<MailboxOthers, inputVars, Receive_Packet, caller>>

\* if (rv == 0) if (Receive_Packet.ready) if (Receive_Packet.pdu_len)
R_Check ==
    /\ RcvAt("check")
    /\ RcvGoes(IF ~Receive_Packet.ready THEN "return"
               ELSE IF Receive_Packet.pdu_len # 0 THEN "copy_src" ELSE "clear")
    /\ UNCHANGED <<MailboxOthers, inputVars, Receive_Packet, Receive_Packet_Flag, caller>>

\* memmove(src, &Receive_Packet.address, ...)
R_CopySrc ==
    /\ RcvAt("copy_src")
    /\ caller' = [caller EXCEPT !.src = Receive_Packet.address]
    /\ RcvGoes("copy_pdu")
    /\ UNCHANGED <<MailboxOthers, inputVars, Receive_Packet, Receive_Packet_Flag>>

\* memmove(pdu, &Receive_Packet.pdu, ...)
R_CopyPdu ==
    /\ RcvAt("copy_pdu")
    /\ caller' = [caller EXCEPT !.pdu = Receive_Packet.pdu]
    /\ RcvGoes("len")
    /\ UNCHANGED <<MailboxOthers, inputVars, Receive_Packet, Receive_Packet_Flag>>

\* pdu_len = Receive_Packet.pdu_len
R_Len ==
    /\ RcvAt("len")
    /\ mbox' = [mbox EXCEPT !.rcv.pc = "clear", !.rcv.pdu_len = Receive_Packet.pdu_len]
    /\ UNCHANGED <<MailboxOthers, inputVars, Receive_Packet, Receive_Packet_Flag, caller>>

\* Receive_Packet.ready = false
R_Clear ==
    /\ RcvAt("clear")
    /\ Receive_Packet' = [Receive_Packet EXCEPT !.ready = FALSE]
    /\ RcvGoes("return")
    /\ UNCHANGED <<MailboxOthers, inputVars, Receive_Packet_Flag, caller>>

\* return pdu_len
R_Return ==
    /\ RcvAt("return")
    /\ RcvGoes("idle")
    /\ UNCHANGED <<MailboxOthers, inputVars, Receive_Packet, Receive_Packet_Flag, caller>>

NextMailbox ==
    \/ M_Call \/ M_Check \/ M_Copy \/ M_Address \/ M_Len \/ M_Ready \/ M_Signal
    \/ M_Return
    \/ R_Call \/ R_Wait \/ R_Check \/ R_CopySrc \/ R_CopyPdu \/ R_Len \/ R_Clear
    \/ R_Return

SpecMailbox == InitMailbox /\ [][NextMailbox]_vars

\* dlmstp_receive is between its wait returning 0 and clearing ready
Reading == mbox.rcv.pc \in {"check", "copy_src", "copy_pdu", "len", "clear"}

\* C11: under every interleaving of MSTP_Put_Receive and dlmstp_receive the
\* semaphore count is at most 1, a count of 1 implies ready, and the slot's
\* payload, address and pdu_len are not written between a dlmstp_receive's
\* wait returning and that call clearing ready.
C11_SlotHandedOverBySemaphore ==
    /\ [](Receive_Packet_Flag <= 1)
    /\ [](Receive_Packet_Flag = 1 => Receive_Packet.ready)
    /\ [][Reading => /\ Receive_Packet'.pdu = Receive_Packet.pdu
                     /\ Receive_Packet'.address = Receive_Packet.address
                     /\ Receive_Packet'.pdu_len = Receive_Packet.pdu_len]_vars

\* MSTP_Put_Receive found the slot ready and dropped a frame with data while
\* dlmstp_receive was copying the payload out
C11_DroppedWhileReading ==
    /\ mbox.rcv.pc = "copy_pdu"
    /\ mbox.put.pc = "return"
    /\ mbox.put.pdu_len = 0
    /\ DataLength # 0
    /\ Prefix(InputBuffer, DataLength) # Prefix(Receive_Packet.pdu, DataLength)

(***************************************************************************)
(* dlmstp_master_fsm_task: the loop that decides when the Master Node FSM  *)
(* runs.  Times are in milliseconds.  A uint32_t is the pair of its high   *)
(* and low 16 bits.                                                        *)
(***************************************************************************)
Tno_token == 500
Treply_timeout == 255
Tusage_timeout == 20
DEFAULT_MAX_MASTER == 127

\* conversion of an int32_t to uint32_t
ToUint32(x) == IF x < 0 THEN <<65535, 65536 + x>> ELSE <<x \div 65536, x % 65536>>

\* u >= t for a uint32_t u and a t below 65536
Uint32AtLeast(u, t) == u[1] > 0 \/ u[2] >= t

\* poPort is NULL or the port; elapsed is the time since Timer_Silence_Reset
Timer_Silence(poPort, elapsed) == IF poPort = NULL THEN ToUint32(-1) ELSE ToUint32(elapsed)

FrameEvents == {"ReceivedValidFrame", "ReceivedValidFrameNotForUs", "ReceivedInvalidFrame"}

MasterStates == {"IDLE", "WAIT_FOR_REPLY", "POLL_FOR_MASTER", "USE_TOKEN"}

\* silences the bus can show when the task looks
Silences == {0, 19, 20, 254, 255, 499, 500}

InitMaster ==
    /\ InitPort
    /\ prod = NoThreads
    /\ cmp = [op |-> "none"]
    /\ RS485_Baud = "B38400"
    /\ mbox = [op |-> "none"]
    /\ rx = [op |-> "none"]
    /\ master = [pc |-> "receive", run_master |-> FALSE, silence |-> ToUint32(0),
                 event |-> "none", state |-> "IDLE", elapsed |-> 0, ran |-> FALSE]

MasterOthers == <<queueVars, portVars, inputVars, OutputBuffer, slotVars, call, histVars,
                  prod, cmp, mbox, rx>>

\* with no frame event pending the task runs the Receive Frame FSM on what
\* the UART holds: it may complete a frame, and time has passed
T_Receive ==
    /\ master.pc = "receive"
    /\ IF master.event = "none"
       THEN \E event \in FrameEvents \cup {"none"} : \E elapsed \in Silences :
               master' = [master EXCEPT !.pc = "decide", !.event = event,
                                        !.elapsed = IF event = "none" THEN elapsed ELSE 0,
                                        !.ran = FALSE]
       ELSE master' = [master EXCEPT !.pc = "decide", !.ran = FALSE]
    /\ UNCHANGED MasterOthers

\* the run_master decision
T_Decide ==
    /\ master.pc = "decide"
    /\ IF master.event \in FrameEvents
       THEN master' = [master EXCEPT !.pc = "run", !.run_master = TRUE]
       ELSE \E silence \in {Timer_Silence(NULL, master.elapsed)} :
               master' = [master EXCEPT
                   !.pc = "run",
                   !.silence = silence,
                   !.run_master =
                       CASE master.state = "IDLE" ->
                              IF Uint32AtLeast(silence, Tno_token) THEN TRUE ELSE @
                         [] master.state = "WAIT_FOR_REPLY" ->
                              IF Uint32AtLeast(silence, Treply_timeout) THEN TRUE ELSE @
                         [] master.state = "POLL_FOR_MASTER" ->
                              IF Uint32AtLeast(silence, Tusage_timeout) THEN TRUE ELSE @
                         [] OTHER -> TRUE]
    /\ UNCHANGED MasterOthers

\* if (run_master): the Master Node FSM runs until it reports no immediate
\* transition; it consumes the frame event and ends in some state (ran
\* records that it was invoked in this iteration)
T_Run ==
    /\ master.pc = "run"
    /\ IF master.run_master /\ This_Station <= DEFAULT_MAX_MASTER
       THEN \E state \in MasterStates :
               master' = [master EXCEPT !.pc = "receive", !.event = "none",
                                        !.state = state, !.ran = TRUE]
       ELSE master' = [master EXCEPT !.pc = "receive"]
    /\ UNCHANGED MasterOthers

NextMaster == T_Receive \/ T_Decide \/ T_Run

SpecMaster == InitMaster /\ [][NextMaster]_vars

\* the timeout the task is to wait for in a state
StateTimeout(state) ==
    CASE state = "IDLE" -> Tno_token
      [] state = "WAIT_FOR_REPLY" -> Treply_timeout
      [] state = "POLL_FOR_MASTER" -> Tusage_timeout

\* C12: in IDLE, WAIT_FOR_REPLY and POLL_FOR_MASTER the task runs the Master
\* Node FSM only when a frame event flag is set or the silence on the port
\* has reached the state's timeout, on every iteration of the loop.
C12_MasterRunsOnEventOrTimeout ==
    [][(/\ master.pc = "run"
        /\ master'.ran
        /\ master.state \in {"IDLE", "WAIT_FOR_REPLY", "POLL_FOR_MASTER"})
           => \/ master.event \in FrameEvents
              \/ master.elapsed >= StateTimeout(master.state)]_vars

(***************************************************************************)
(* dlmstp_send_pdu with any destination address and any length.            *)
(***************************************************************************)
\* the global broadcast Who-Is NPDU
WhoIsPdu == <<1, 32, 255, 255, 0, 255, 16, 8>>

\* one octet more than the longest NPDU; it still fits pkt->buffer
LongPdu == [i \in 1..(MaxPduLen + 1) |-> IF i = 1 THEN 1 ELSE IF i = 3 THEN 16 ELSE 0]

\* destinations: MS/TP broadcast and station 2 as the port writes addresses,
\* and the address dlmstp_get_broadcast_address hands out
AnySends ==
    {[dest |-> dest, pdu |-> pdu] :
        dest \in {dlmstp_fill_bacnet_address(MSTP_BROADCAST_ADDRESS),
                  dlmstp_fill_bacnet_address(2), BroadcastDest},
        pdu \in {WhoIsPdu, LongPdu}}
    \cup {[dest |-> dlmstp_fill_bacnet_address(2), pdu |-> << >>]}

AnySend ==
    \E in \in AnySends : \E control \in ControlOctets(in.pdu) :
        /\ SendPdu(in.dest, in.pdu, control)
        /\ accepted' = IF PDU_Queue'.head > PDU_Queue.head
                       THEN Append(accepted, [dest |-> in.dest, pdu |-> in.pdu,
                                              destination |-> in.dest.mac[1],
                                              control |-> control])
                       ELSE accepted
        /\ framed' = framed

NextAnySend == AnySend \/ FifoGetSend

SpecAnySend == Init /\ [][NextAnySend]_vars

\* the MS/TP address a BACnet address stands for
MstpAddressOf(address) ==
    IF address.mac_len = 0 THEN MSTP_BROADCAST_ADDRESS ELSE address.mac[1]

\* C13: a PDU sent to an address with mac_len = 0 is queued, and framed by
\* MSTP_Get_Send, with destination 255; one sent to an address with
\* mac_len = 1 with destination mac[0].
C13_BroadcastQueuedAs255 ==
    /\ \A i \in 1..Len(Queue) :
          Queue[i].destination_mac = MstpAddressOf(accepted[Len(framed) + i].dest)
    /\ \A i \in 1..Len(framed) :
          framed[i].built => framed[i].destination = MstpAddressOf(accepted[i].dest)

\* C17: every queued packet has a payload length of at most the longest
\* NPDU (501 in the program) and at most the capacity of its buffer.
C17_QueuedLengthBounded ==
    \A i \in 1..Len(Queue) :
        /\ Queue[i].length <= MaxPduLen
        /\ Queue[i].length <= Len(Queue[i].buffer)

(***************************************************************************)
(* The BACnet addresses the port produces for MS/TP addresses.             *)
(***************************************************************************)
dlmstp_get_broadcast_address == BroadcastDest

AddressOthers ==
    UNCHANGED <<queueVars, portVars, inputVars, OutputBuffer, slotVars, call,
                histVars, prod, taskVars>>

FillAddress ==
    \E mstp_address \in Octet :
        /\ cmp' = [op |-> "fill_bacnet_address", mstp_address |-> mstp_address,
                   address |-> dlmstp_fill_bacnet_address(mstp_address)]
        /\ AddressOthers

GetBroadcastAddress ==
    /\ cmp' = [op |-> "get_broadcast_address",
               mstp_address |-> MSTP_BROADCAST_ADDRESS,
               address |-> dlmstp_get_broadcast_address]
    /\ AddressOthers

NextAddress == FillAddress \/ GetBroadcastAddress

SpecAddress == Init /\ [][NextAddress]_vars

\* C14: every address produced for an MS/TP address has mac_len = 0 when the
\* MS/TP address is 255 and mac_len = 1, mac[0] = the address otherwise, with
\* len = 0 and all adr octets zero.
C14_OneAddressMapping ==
    cmp.op \in {"fill_bacnet_address", "get_broadcast_address"} =>
        /\ cmp.mstp_address = MSTP_BROADCAST_ADDRESS => cmp.address.mac_len = 0
        /\ cmp.mstp_address # MSTP_BROADCAST_ADDRESS =>
              /\ cmp.address.mac_len = 1
              /\ cmp.address.mac[1] = cmp.mstp_address
        /\ cmp.address.len = 0
        /\ \A i \in 1..MAX_MAC_LEN : cmp.address.adr[i] = 0

(***************************************************************************)
(* Configuration setters and getters.                                      *)
(***************************************************************************)
dlmstp_set_max_info_frames_any(max_info_frames_now, max_info_frames) ==
    max_info_frames

dlmstp_set_max_info_frames(max_info_frames_now, max_info_frames) ==
    IF max_info_frames >= 1 THEN max_info_frames ELSE max_info_frames_now

\* the termios speed stored for a baud rate; no case for any other rate
dlmstp_set_baud_rate(baud_now, baud) ==
    CASE baud = 9600   -> "B9600"
      [] baud = 19200  -> "B19200"
      [] baud = 38400  -> "B38400"
      [] baud = 57600  -> "B57600"
      [] baud = 115200 -> "B115200"
      [] OTHER         -> baud_now

dlmstp_baud_rate(baud) ==
    CASE baud = "B19200"  -> 19200
      [] baud = "B38400"  -> 38400
      [] baud = "B57600"  -> 57600
      [] baud = "B115200" -> 115200
      [] OTHER            -> 9600

dlmstp_mac_address == This_Station
dlmstp_max_master == Nmax_master
dlmstp_max_info_frames == Nmax_info_frames

\* arguments explored, in range and out of range
ConfigMacs == {0, 1, 64, 127, 128, 200, 255}
ConfigMaxMasters == {0, 1, 64, 127, 128, 255}
ConfigInfoFrames == {0, 1, 2, 255}
ConfigBauds == {0, 4800, 9600, 19200, 38400, 57600, 76800, 115200}

ConfigOthers ==
    UNCHANGED <<queueVars, inputVars, OutputBuffer, slotVars, histVars, prod, cmp,
                taskVars>>

ConfigSetMac ==
    \E mac_address \in ConfigMacs :
    \E r \in {dlmstp_set_mac_address(This_Station, Nmax_master, mac_address)} :
        /\ This_Station' = r.This_Station
        /\ Nmax_master' = r.Nmax_master
        /\ call' = [op |-> "set_mac_address", arg |-> mac_address, ret |-> 0]
        /\ UNCHANGED <<Nmax_info_frames, RS485_Baud>>
        /\ ConfigOthers

ConfigSetMaxMaster ==
    \E max_master \in ConfigMaxMasters :
        /\ Nmax_master' = dlmstp_set_max_master(This_Station, Nmax_master, max_master)
        /\ call' = [op |-> "set_max_master", arg |-> max_master, ret |-> 0]
        /\ UNCHANGED <<This_Station, Nmax_info_frames, RS485_Baud>>
        /\ ConfigOthers

ConfigSetMaxInfoFrames ==
    \E max_info_frames \in ConfigInfoFrames :
        /\ Nmax_info_frames' =
              dlmstp_set_max_info_frames(Nmax_info_frames, max_info_frames)
        /\ call' = [op |-> "set_max_info_frames", arg |-> max_info_frames, ret |-> 0]
        /\ UNCHANGED <<This_Station, Nmax_master, RS485_Baud>>
        /\ ConfigOthers

ConfigSetBaud ==
    \E baud \in ConfigBauds :
        /\ RS485_Baud' = dlmstp_set_baud_rate(RS485_Baud, baud)
        /\ call' = [op |-> "set_baud_rate", arg |-> baud, ret |-> 0]
        /\ UNCHANGED <<This_Station, Nmax_master, Nmax_info_frames>>
        /\ ConfigOthers

NextConfig ==
    ConfigSetMac \/ ConfigSetMaxMaster \/ ConfigSetMaxInfoFrames \/ ConfigSetBaud

SpecConfig == Init /\ [][NextConfig]_vars

\* the baud rates MS/TP names
SupportedBauds == {9600, 19200, 38400, 57600, 76800, 115200}

OutOfRange(c) ==
    \/ c.op = "set_mac_address" /\ c.arg > 127
    \/ c.op = "set_max_master" /\ c.arg > 127
    \/ c.op = "set_max_info_frames" /\ c.arg = 0
    \/ c.op = "set_baud_rate" /\ c.arg \notin SupportedBauds

\* C15: a setter called with an out-of-range value (MAC address or max
\* master above 127, max info frames 0, an unsupported baud rate) leaves
\* This_Station, Nmax_master, Nmax_info_frames and the baud rate unchanged,
\* and every getter returns what it returned before the call.
C15_OutOfRangeSetterIsNoOp ==
    [][OutOfRange(call') =>
          /\ UNCHANGED <<This_Station, Nmax_master, Nmax_info_frames, RS485_Baud>>
          /\ dlmstp_mac_address' = dlmstp_mac_address
          /\ dlmstp_max_master' = dlmstp_max_master
          /\ dlmstp_max_info_frames' = dlmstp_max_info_frames
          /\ dlmstp_baud_rate(RS485_Baud') = dlmstp_baud_rate(RS485_Baud)]_vars

\* an unsupported baud rate was refused on a port configured away from its
\* defaults
C15_RefusedOnConfiguredPort ==
    /\ call.op = "set_baud_rate"
    /\ call.arg = 4800
    /\ RS485_Baud = "B57600"
    /\ This_Station = 64
    /\ Nmax_master = 64
    /\ Nmax_info_frames = 2

\* C16: dlmstp_set_baud_rate(b) with b one of 9600, 19200, 38400, 57600,
\* 76800, 115200 makes dlmstp_baud_rate() return b, whatever the rate was.
C16_SetBaudThenGetBaud ==
    [][(call'.op = "set_baud_rate" /\ call'.arg \in SupportedBauds)
          => dlmstp_baud_rate(RS485_Baud') = call'.arg]_vars

(***************************************************************************)
(* How long dlmstp_receive waits for the semaphore.                        *)
(***************************************************************************)
NS_PER_S == 1000000000

timespec_add_ns(ts, ns) ==
    IF ts.tv_nsec + ns > NS_PER_S
    THEN [tv_sec |-> ts.tv_sec + 1, tv_nsec |-> ts.tv_nsec + ns - NS_PER_S]
    ELSE IF ts.tv_nsec + ns < 0
         THEN [tv_sec |-> ts.tv_sec - 1, tv_nsec |-> ts.tv_nsec + ns + NS_PER_S]
         ELSE [tv_sec |-> ts.tv_sec, tv_nsec |-> ts.tv_nsec + ns]

\* now is what clock_gettime(CLOCK_MONOTONIC) returned
get_abstime(now, milliseconds) ==
    timespec_add_ns(now, 1000000 * (IF milliseconds > 1000 THEN 1000 ELSE milliseconds))

\* a time as milliseconds on the monotonic clock
Milliseconds(ts) == ts.tv_sec * 1000 + ts.tv_nsec \div 1000000

\* dispatch_semaphore_wait(sem, timeout) with no signal arriving returns when
\* the clock reaches the dispatch_time_t it was given
dispatch_semaphore_wait(now, timeout) ==
    IF timeout <= Milliseconds(now) THEN 0 ELSE timeout - Milliseconds(now)

\* readings of the monotonic clock, timeouts asked for, and what the address
\* of the local variable abstime is when read as a dispatch_time_t (in
\* milliseconds): a time already past, or one many hours after boot
ClockReadings ==
    {[tv_sec |-> sec, tv_nsec |-> nsec] :
        sec \in {5, 3600}, nsec \in {0, 1000000, 500000000, 999000000}}
Timeouts == {0, 1, 500, 999, 1000, 1001, 2000, 60000}
AbstimeAddresses == {1000, 140000000}

\* dlmstp_receive with nothing deposited: get_abstime computes the deadline,
\* dispatch_semaphore_wait is handed &abstime, the address of that deadline
ReceiveWait ==
    \E now \in ClockReadings : \E timeout \in Timeouts :
    \E address \in AbstimeAddresses :
        /\ cmp' = [op |-> "receive", now |-> now, timeout |-> timeout,
                   abstime |-> get_abstime(now, timeout),
                   blocked |-> dispatch_semaphore_wait(now, address)]
        /\ AddressOthers

NextTimeout == ReceiveWait

SpecTimeout == Init /\ [][NextTimeout]_vars

\* C18: dlmstp_receive blocks for min(timeout, 1000) milliseconds when no
\* frame is deposited, for every timeout value.
C18_ReceiveBlocksCappedTimeout ==
    cmp.op = "receive" =>
        cmp.blocked = (IF cmp.timeout > 1000 THEN 1000 ELSE cmp.timeout)

(***************************************************************************)
(* The Receive Frame state machine, one octet per invocation.              *)
(***************************************************************************)
Tframe_abort == 60

ForUs_any(destination, station) == TRUE

\* the frame is addressed to this station or to all stations
ForUs(destination, station) ==
    destination = station \/ destination = MSTP_BROADCAST_ADDRESS

FitsInputBuffer_always(length, size) == TRUE

FitsInputBuffer(length, size) == length <= size

RxEventFor(destination, station) ==
    IF ForUs(destination, station)
    THEN "ReceivedValidFrame" ELSE "ReceivedValidFrameNotForUs"

\* the port after the machine has taken octet from the UART; overrun records
\* a store at an index outside InputBuffer
MSTP_Receive_Frame_FSM(p, octet) ==
    CASE p.state = "IDLE" ->
            IF octet = 85 THEN [p EXCEPT !.state = "PREAMBLE"] ELSE p
      [] p.state = "PREAMBLE" ->
            IF octet = 255
            THEN [p EXCEPT !.state = "HEADER", !.HeaderCRC = 255, !.Index = 0]
            ELSE IF octet = 85 THEN p ELSE [p EXCEPT !.state = "IDLE"]
      [] p.state = "HEADER" ->
            [p EXCEPT
               !.FrameType = IF p.Index = 0 THEN octet ELSE @,
               !.DestinationAddress = IF p.Index = 1 THEN octet ELSE @,
               !.SourceAddress = IF p.Index = 2 THEN octet ELSE @,
               !.DataLength = IF p.Index = 3 THEN octet * 256
                              ELSE IF p.Index = 4 THEN @ + octet ELSE @,
               !.HeaderCRC = CRC_Calc_Header(octet, @),
               !.Index = @ + 1,
               !.state = IF p.Index = 4 THEN "HEADER_CRC" ELSE @]
      [] p.state = "HEADER_CRC" ->
            IF CRC_Calc_Header(octet, p.HeaderCRC) # 85
            THEN [p EXCEPT !.HeaderCRC = CRC_Calc_Header(octet, @),
                           !.event = "ReceivedInvalidFrame", !.state = "IDLE"]
            ELSE IF p.DataLength = 0
            THEN [p EXCEPT !.HeaderCRC = 85,
                           !.event = RxEventFor(p.DestinationAddress, This_Station),
                           !.state = "IDLE"]
            ELSE [p EXCEPT !.HeaderCRC = 85, !.DataCRC = 65535, !.Index = 0,
                           !.state = IF FitsInputBuffer(p.DataLength, Len(p.InputBuffer))
                                     THEN "DATA" ELSE "SKIP_DATA"]
      [] p.state = "DATA" ->
            [p EXCEPT
               !.InputBuffer = IF p.Index < Len(p.InputBuffer)
                               THEN [@ EXCEPT ![p.Index + 1] = octet] ELSE @,
               !.overrun = @ \/ p.Index >= Len(p.InputBuffer),
               !.DataCRC = CRC_Calc_Data(octet, @),
               !.Index = @ + 1,
               !.state = IF p.Index + 1 = p.DataLength THEN "DATA_CRC" ELSE @]
      [] p.state = "SKIP_DATA" ->
            [p EXCEPT
               !.DataCRC = CRC_Calc_Data(octet, @),
               !.Index = @ + 1,
               !.state = IF p.Index + 1 = p.DataLength THEN "DATA_CRC" ELSE @]
      [] p.state = "DATA_CRC" ->
            IF p.Index = p.DataLength
            THEN [p EXCEPT !.DataCRC = CRC_Calc_Data(octet, @), !.Index = @ + 1]
            ELSE [p EXCEPT
                    !.DataCRC = CRC_Calc_Data(octet, @),
                    !.event =
                        IF /\ CRC_Calc_Data(octet, p.DataCRC) = 61624
                           /\ FitsInputBuffer(p.DataLength, Len(p.InputBuffer))
                        THEN RxEventFor(p.DestinationAddress, This_Station)
                        ELSE "ReceivedInvalidFrame",
                    !.state = "IDLE"]

\* no octet arrived for Tframe_abort while a frame was being received
MSTP_Receive_Frame_FSM_Silence(p, silence) ==
    IF p.state # "IDLE" /\ silence >= Tframe_abort
    THEN [p EXCEPT !.event = "ReceivedInvalidFrame", !.state = "IDLE"]
    ELSE p

\* data octets of the frames fed; they hold a preamble pattern of their own
RxData(data_len) ==
    [i \in 1..data_len |-> IF i = 1 THEN 85 ELSE IF i = 2 THEN 255 ELSE (i * 37) % 256]

RxBuilt(frame_type, destination, source, data_len) ==
    [kind |-> "built", frame_type |-> frame_type, destination |-> destination,
     source |-> source, data_len |-> data_len, data |-> RxData(data_len),
     octets |-> MSTP_Create_Frame(DLMSTP_MPDU_MAX, frame_type, destination, source,
                                  RxData(data_len), data_len)]

\* a frame put together octet by octet, with the CRCs of a well-formed frame
RxByHand(kind, destination, data_len) ==
    [kind |-> kind, frame_type |-> FRAME_TYPE_BACNET_DATA_NOT_EXPECTING_REPLY,
     destination |-> destination, source |-> 3, data_len |-> data_len,
     data |-> RxData(data_len),
     octets |-> FrameHeader(<<FRAME_TYPE_BACNET_DATA_NOT_EXPECTING_REPLY, destination, 3,
                              data_len \div 256, data_len % 256>>)
                \o FrameData(RxData(data_len))]

\* the header of frame with one octet changed
RxCorrupted(frame) ==
    [frame EXCEPT !.kind = "bad_header",
                  !.octets = [@ EXCEPT ![5] = (@ + 1) % 256]]

\* the sender stops after count octets of frame
RxTruncated(frame, count) ==
    [frame EXCEPT !.kind = "truncated", !.octets = Prefix(@, count)]

\* the preamble and header of frame, with octet i changed
RxFlipped(frame, i) ==
    [frame EXCEPT !.kind = "flipped",
                  !.octets = [Prefix(@, FRAME_HEADER_SIZE) EXCEPT ![i] = 255 - @]]

RxFrames ==
    {RxBuilt(FRAME_TYPE_BACNET_DATA_NOT_EXPECTING_REPLY, destination, 3, data_len) :
        destination \in {127, MSTP_BROADCAST_ADDRESS, 2},
        data_len \in {0, 1, MaxPduLen}}
    \cup {RxBuilt(0, 127, 3, 0),
          RxByHand("full", 127, DLMSTP_MPDU_MAX),
          RxByHand("oversize", 127, DLMSTP_MPDU_MAX + 1),
          RxCorrupted(RxBuilt(FRAME_TYPE_BACNET_DATA_NOT_EXPECTING_REPLY, 127, 3, 1)),
          RxTruncated(RxBuilt(FRAME_TYPE_BACNET_DATA_NOT_EXPECTING_REPLY, 127, 3, 1), 5),
          RxTruncated(RxBuilt(FRAME_TYPE_BACNET_DATA_NOT_EXPECTING_REPLY, 127, 3,
                              MaxPduLen), 10),
          [kind |-> "noise", frame_type |-> 0, destination |-> 0, source |-> 0,
           data_len |-> 0, data |-> << >>, octets |-> <<85, 85, 0, 255, 85>>]}
    \cup {RxFlipped(RxBuilt(FRAME_TYPE_BACNET_DATA_NOT_EXPECTING_REPLY, 127, 3, 0), i) :
            i \in 3..FRAME_HEADER_SIZE}

InitReceive ==
    /\ InitPort
    /\ RS485_Baud = "B38400"
    /\ mbox = [op |-> "none"]
    /\ master = [op |-> "none"]
    /\ prod = NoThreads
    /\ cmp = [op |-> "none"]
    /\ rx = [port |-> [state |-> "IDLE", HeaderCRC |-> 0, DataCRC |-> 0, Index |-> 0,
                       FrameType |-> 0, DestinationAddress |-> 0,
                       SourceAddress |-> SourceAddress, DataLength |-> DataLength,
                       InputBuffer |-> InputBuffer, event |-> "none",
                       overrun |-> FALSE],
             wire |-> << >>, fed |-> [kind |-> "none"], events |-> << >>,
             start |-> "IDLE", prev |-> "none"]

ReceiveOthers ==
    UNCHANGED <<queueVars, portVars, OutputBuffer, slotVars, call, histVars, prod, cmp,
                mbox, master>>

\* the machine's port record is the port's
RxPort(r) ==
    /\ InputBuffer' = r.InputBuffer
    /\ DataLength' = r.DataLength
    /\ SourceAddress' = r.SourceAddress

\* a station starts to send a frame, after a frame that came to its end or
\* after line noise
RxStart ==
    /\ rx.wire = << >>
    /\ rx.port.state \in {"IDLE", "PREAMBLE"}
    /\ rx.port.event = "none"
    /\ \E frame \in RxFrames :
          rx' = [rx EXCEPT !.wire = frame.octets, !.fed = frame, !.events = << >>,
                           !.start = rx.port.state, !.prev = rx.fed.kind]
    /\ UNCHANGED inputVars
    /\ ReceiveOthers

\* the receive loop: one octet from the UART, one step of the machine, only
\* while no frame event is pending
RxOctet ==
    /\ rx.wire # << >>
    /\ rx.port.event = "none"
    /\ \E r \in {MSTP_Receive_Frame_FSM(rx.port, Head(rx.wire))} :
          /\ rx' = [rx EXCEPT !.port = r, !.wire = Tail(@),
                              !.events = IF r.event # "none"
                                         THEN Append(@, r.event) ELSE @]
          /\ RxPort(r)
    /\ ReceiveOthers

\* the sender has stopped in the middle of a frame and the line stays silent
RxSilence ==
    /\ rx.wire = << >>
    /\ rx.port.state # "IDLE"
    /\ rx.port.event = "none"
    /\ \E r \in {MSTP_Receive_Frame_FSM_Silence(rx.port, Tframe_abort)} :
          /\ rx' = [rx EXCEPT !.port = r, !.events = Append(@, r.event)]
          /\ RxPort(r)
    /\ ReceiveOthers

\* the consumer of frame events clears the flag
RxEvent ==
    /\ rx.port.event # "none"
    /\ rx' = [rx EXCEPT !.port.event = "none"]
    /\ UNCHANGED inputVars
    /\ ReceiveOthers

NextReceive == RxStart \/ RxOctet \/ RxSilence \/ RxEvent

SpecReceive == InitReceive /\ [][NextReceive]_vars

RxConsumed == Len(rx.fed.octets) - Len(rx.wire)

\* C19: feeding the octets of a frame built by MSTP_Create_Frame (or of a
\* well-formed frame with InputBufferSize data octets), starting in IDLE, one per
\* invocation, raises no event before the last octet and exactly one with
\* it: ReceivedValidFrame if the destination is This_Station or broadcast,
\* ReceivedValidFrameNotForUs otherwise; the decoded FrameType,
\* DestinationAddress, SourceAddress, DataLength and data octets are the
\* inputs of MSTP_Create_Frame and the machine is back in IDLE.
C19_ReceiveRoundTrip ==
    (rx.fed.kind \in {"built", "full"} /\ rx.start = "IDLE") =>
        /\ rx.wire # << >> => rx.events = << >>
        /\ rx.wire = << >> =>
              /\ rx.events = <<IF rx.fed.destination \in {This_Station, 255}
                               THEN "ReceivedValidFrame"
                               ELSE "ReceivedValidFrameNotForUs">>
              /\ rx.port.state = "IDLE"
              /\ rx.port.FrameType = rx.fed.frame_type
              /\ rx.port.DestinationAddress = rx.fed.destination
              /\ rx.port.SourceAddress = rx.fed.source
              /\ rx.port.DataLength = rx.fed.data_len
              /\ DataLength = rx.fed.data_len
              /\ Prefix(InputBuffer, rx.fed.data_len) = rx.fed.data

\* a frame of the longest NPDU for another station has been decoded
C19_DecodedNotForUs ==
    /\ rx.fed.kind = "built"
    /\ rx.fed.destination = 2
    /\ rx.fed.data_len = MaxPduLen
    /\ rx.wire = << >>
    /\ rx.start = "IDLE"
    /\ rx.events = <<"ReceivedValidFrameNotForUs">>

\* C20: no octet is ever stored at an index at or beyond InputBufferSize;
\* a frame whose valid header declares more data than InputBufferSize is
\* skipped: the machine is in SKIP_DATA for length octets, takes 2 CRC
\* octets, then raises ReceivedInvalidFrame, never a valid-frame event, and
\* is back in IDLE, with InputBuffer as it was.
C20_OversizeSkipped ==
    /\ [](~rx.port.overrun)
    /\ []((rx.fed.kind = "oversize" /\ rx.start = "IDLE") =>
          /\ rx.wire # << >> => rx.events = << >>
          /\ (RxConsumed >= FRAME_HEADER_SIZE
              /\ RxConsumed < FRAME_HEADER_SIZE + rx.fed.data_len)
                => rx.port.state = "SKIP_DATA"
          /\ (RxConsumed >= FRAME_HEADER_SIZE + rx.fed.data_len /\ rx.wire # << >>)
                => rx.port.state = "DATA_CRC"
          /\ rx.wire = << >> =>
                /\ rx.events = <<"ReceivedInvalidFrame">>
                /\ rx.port.state = "IDLE")
    /\ [][(rx.port.state = "SKIP_DATA" \/ rx'.port.state = "SKIP_DATA")
             => InputBuffer' = InputBuffer]_vars

\* an oversize frame has been skipped to its end
C20_SkippedToTheEnd ==
    /\ rx.fed.kind = "oversize"
    /\ rx.fed.data_len = DLMSTP_MPDU_MAX + 1
    /\ rx.wire = << >>
    /\ rx.start = "IDLE"
    /\ rx.events = <<"ReceivedInvalidFrame">>
    /\ rx.port.state = "IDLE"

\* C21: a preamble and a header with one octet changed, fed from IDLE, raise
\* exactly one ReceivedInvalidFrame and no valid-frame event and leave the
\* machine in IDLE; a frame built by MSTP_Create_Frame and fed right after it
\* raises exactly one valid-frame event, with the fields it was built from.
C21_RecoversAfterBadHeader ==
    /\ (rx.fed.kind = "flipped" /\ rx.start = "IDLE") =>
          /\ rx.wire # << >> => rx.events = << >>
          /\ rx.wire = << >> =>
                /\ rx.events = <<"ReceivedInvalidFrame">>
                /\ rx.port.state = "IDLE"
    /\ (rx.fed.kind = "built" /\ rx.prev = "flipped" /\ rx.wire = << >>) =>
          /\ rx.events = <<RxEventFor(rx.fed.destination, This_Station)>>
          /\ rx.port.state = "IDLE"
          /\ rx.port.FrameType = rx.fed.frame_type
          /\ rx.port.DestinationAddress = rx.fed.destination
          /\ rx.port.SourceAddress = rx.fed.source
          /\ rx.port.DataLength = rx.fed.data_len
          /\ Prefix(rx.port.InputBuffer, rx.fed.data_len) = rx.fed.data

\* a frame with data has been decoded right after a header that failed its CRC
C21_DecodedAfterBadHeader ==
    /\ rx.fed.kind = "built"
    /\ rx.prev = "flipped"
    /\ rx.fed.data_len = MaxPduLen
    /\ rx.wire = << >>
    /\ rx.events = <<"ReceivedValidFrame">>

\* C26: whatever setters are called with whatever arguments, the port keeps
\* This_Station <= Nmax_master <= 127 and Nmax_info_frames >= 1.
C26_ConfigurationStaysInRange ==
    /\ This_Station <= Nmax_master
    /\ Nmax_master <= 127
    /\ Nmax_info_frames >= 1

\* max master was asked to go below the station's own address
C26_LoweringRefused ==
    /\ call.op = "set_max_master"
    /\ call.arg = 0
    /\ This_Station = 1
    /\ Nmax_master = 64
    /\ Nmax_info_frames = 255

(***************************************************************************)
(* dlmstp_receive into a caller's buffer of max_pdu octets.                *)
(***************************************************************************)
\* sizes of the caller's buffer
MaxPdus == {4, DLMSTP_MPDU_MAX}

\* max_pdu is not used by the function: (void)max_pdu
ReceiveInto ==
    \E max_pdu \in MaxPdus :
    \E r \in {dlmstp_receive(Receive_Packet, Receive_Packet_Flag, caller)} :
        /\ Receive_Packet' = r.slot
        /\ Receive_Packet_Flag' = r.sem
        /\ caller' = r.out
        /\ deposited' = << >>
        /\ call' = [op |-> "receive", ret |-> r.pdu_len, rv |-> r.rv,
                    max_pdu |-> max_pdu, stored |-> Len(Receive_Packet.pdu)]
        /\ UNCHANGED <<queueVars, portVars, inputVars, OutputBuffer, histVars, prod, cmp,
                       taskVars>>

NextReceiveInto == Frame \/ PutReceive \/ ReceiveInto

SpecReceiveInto == Init /\ [][NextReceiveInto]_vars

\* C27: the length dlmstp_receive returns exceeds neither the caller's
\* max_pdu nor the number of octets the receive slot holds.
C27_ReturnedLengthFits ==
    call.op = "receive" =>
        /\ call.ret <= call.max_pdu
        /\ call.ret <= call.stored

\* C28: MSTP_Get_Send returns 0 only when the queue is empty, and then
\* leaves the queue as it is: a packet it removes has been framed.
C28_GetSendZeroOnlyWhenEmpty ==
    [][(call'.op = "Get_Send" /\ call'.ret = 0)
          => (Ringbuf_Empty(PDU_Queue) /\ UNCHANGED queueVars)]_vars

\* C29: dlmstp_send_pdu returns non-zero exactly when it has enqueued the
\* PDU; when it returns 0 the queue is unchanged.
C29_SendPduZeroIffNotQueued ==
    [][call'.op = "send_pdu" =>
          /\ call'.ret # 0 <=> PDU_Queue'.head = PDU_Queue.head + 1
          /\ call'.ret = 0 => UNCHANGED queueVars]_vars

(***************************************************************************)
(* One caller inside dlmstp_send_pdu, one statement at a time, while the   *)
(* master task calls MSTP_Get_Send and MSTP_Get_Reply.                     *)
(***************************************************************************)
InitInterleave ==
    /\ InitPort
    /\ InitIdle
    /\ prod = [t \in {1} |-> [pc |-> "idle", pkt |-> NULL, calls |-> 0,
                              bytes_sent |-> 0]]
    /\ cmp = [op |-> "none"]

\* MSTP_Get_Send; framed notes where the producer was at that moment
GetSendMeanwhile ==
    /\ GetSendStep
    /\ framed' = <<[during |-> prod[1].pc]>>
    /\ accepted' = accepted

NextInterleave ==
    \/ P_Call(1) \/ P_Peek(1) \/ P_Flag(1) \/ P_Copy(1) \/ P_Length(1) \/ P_Mac(1)
    \/ P_Put(1) \/ P_Return(1)
    \/ GetSendMeanwhile \/ GetReply \/ Frame

SpecInterleave == InitInterleave /\ [][NextInterleave]_vars

\* C30: every packet the consumer can see holds all four fields of the
\* caller's PDU; the ring's head moves only at the producer's last step,
\* after the fields are written; whatever MSTP_Get_Send or MSTP_Get_Reply
\* frames is the frame of a completely written packet.
C30_VisibleOnlyWhenWritten ==
    /\ [](\A i \in 1..Len(Queue) : HoldsPacketOf(Queue[i], 1))
    /\ []((call.op \in {"Get_Send", "Get_Reply"} /\ call.ret # 0) =>
            OutputBuffer =
                MSTP_Create_Frame(DLMSTP_MPDU_MAX,
                    IF BIT(At(ThreadSend(1).pdu, BACNET_PDU_CONTROL_BYTE_OFFSET), 2)
                    THEN FRAME_TYPE_BACNET_DATA_EXPECTING_REPLY
                    ELSE FRAME_TYPE_BACNET_DATA_NOT_EXPECTING_REPLY,
                    ThreadSend(1).dest.mac[1], This_Station,
                    ThreadSend(1).pdu, Len(ThreadSend(1).pdu)))
    /\ [][PDU_Queue'.head # PDU_Queue.head =>
             /\ prod[1].pc = "put"
             /\ PDU_Buffer' = PDU_Buffer
             /\ HoldsPacketOf(PDU_Buffer[prod[1].pkt], 1)]_vars

\* the consumer has framed the first packet while the second was half written
C30_FramedWhileWriting ==
    /\ prod[1].calls = 2
    /\ prod[1].pc = "length"
    /\ call.op = "Get_Send"
    /\ call.ret # 0
    /\ framed = <<[during |-> "length"]>>

(***************************************************************************)
(* The Master Node state machine (spec.md 4.3), one invocation per call.   *)
(* p is the node: its token-passing state and the frame event and decoded  *)
(* header the Receive Frame FSM left; port holds the node's PDU ring and   *)
(* input buffer; expired says whether the silence has reached the timeout  *)
(* the node's state waits for.  The result carries the frame transmitted   *)
(* (<< >> for none), whether MSTP_Put_Receive is called, and whether the   *)
(* caller is to invoke the FSM again at once.                              *)
(***************************************************************************)
FRAME_TYPE_TOKEN == 0
FRAME_TYPE_POLL_FOR_MASTER == 1
FRAME_TYPE_REPLY_TO_POLL_FOR_MASTER == 2
FRAME_TYPE_REPLY_POSTPONED == 7
Npoll == 50

\* a frame without data
ControlFrame(frame_type, destination, source) ==
    MSTP_Create_Frame(DLMSTP_MPDU_MAX, frame_type, destination, source, << >>, 0)

\* the candidate after station, modulo Nmax_master + 1
NextCandidate(p, station) == (station + 1) % (p.Nmax_master + 1)

\* the FSM leaves everything as it is and reports "stable"
Stable(p, port) ==
    [p |-> p, q |-> port.q, buffer |-> port.buffer, out |-> << >>, put |-> FALSE,
     transition_now |-> FALSE]

\* the FSM moves to state with the frame event consumed
Goto(p, port, state, again) ==
    [Stable(p, port) EXCEPT !.p = [p EXCEPT !.master_state = state, !.event = "none"],
                            !.transition_now = again]

\* the FSM transmits out and moves to state with the frame event consumed
Transmit(p, port, out, state) ==
    [Goto(p, port, state, FALSE) EXCEPT !.out = out]

\* variant: no received frame is acted on
IdleValidFrame_deaf(p, port) == Goto(p, port, "IDLE", FALSE)

\* IDLE with ReceivedValidFrame: dispatch by frame type
IdleValidFrame(p, port) ==
    CASE p.FrameType = FRAME_TYPE_TOKEN /\ p.DestinationAddress = p.This_Station ->
            [Goto(p, port, IF Ringbuf_Empty(port.q) THEN "DONE_WITH_TOKEN"
                           ELSE "USE_TOKEN", TRUE)
                EXCEPT !.p.FrameCount = 0]
      [] p.FrameType = FRAME_TYPE_POLL_FOR_MASTER
            /\ p.DestinationAddress = p.This_Station ->
            Transmit(p, port,
                     ControlFrame(FRAME_TYPE_REPLY_TO_POLL_FOR_MASTER,
                                  p.SourceAddress, p.This_Station), "IDLE")
      [] p.FrameType = FRAME_TYPE_REPLY_TO_POLL_FOR_MASTER ->
            [Goto(p, port, "IDLE", FALSE) EXCEPT !.p.SoleMaster = FALSE]
      [] p.FrameType = FRAME_TYPE_BACNET_DATA_EXPECTING_REPLY
            /\ p.DestinationAddress = p.This_Station ->
            Goto(p, port, "ANSWER_DATA_REQUEST", TRUE)
      [] p.FrameType \in {FRAME_TYPE_BACNET_DATA_EXPECTING_REPLY,
                          FRAME_TYPE_BACNET_DATA_NOT_EXPECTING_REPLY} ->
            [Goto(p, port, "IDLE", FALSE) EXCEPT !.put = TRUE]
      [] OTHER -> Goto(p, port, "IDLE", FALSE)

\* USE_TOKEN: take the head PDU via Get_Send and transmit it
UseToken(p, port) ==
    CHOOSE r \in
        {IF sent.pdu_len = 0
         THEN [Goto(p, port, "DONE_WITH_TOKEN", TRUE)
                  EXCEPT !.q = sent.q, !.buffer = sent.buffer]
         ELSE [Transmit(p, port, sent.frame,
                        IF FrameType(sent.frame) = FRAME_TYPE_BACNET_DATA_EXPECTING_REPLY
                           /\ FrameDestination(sent.frame) # MSTP_BROADCAST_ADDRESS
                        THEN "WAIT_FOR_REPLY" ELSE "DONE_WITH_TOKEN")
                  EXCEPT !.q = sent.q, !.buffer = sent.buffer,
                         !.p.FrameCount = @ + 1,
                         !.transition_now =
                             ~(FrameType(sent.frame) = FRAME_TYPE_BACNET_DATA_EXPECTING_REPLY
                               /\ FrameDestination(sent.frame) # MSTP_BROADCAST_ADDRESS)] :
            sent \in {MSTP_Get_Send(port.q, port.buffer, p.This_Station)}} : TRUE

\* POLL_FOR_MASTER: Poll-For-Master to the candidate after station, or the
\* wrap when that candidate is this station: sole master, token to itself
PollNext(p, port, station) ==
    IF NextCandidate(p, station) = p.This_Station
    THEN [Transmit(p, port,
                   ControlFrame(FRAME_TYPE_TOKEN, p.This_Station, p.This_Station), "IDLE")
             EXCEPT !.p.SoleMaster = TRUE, !.p.Next_Station = p.This_Station,
                    !.p.Poll_Station = p.This_Station]
    ELSE [Transmit(p, port,
                   ControlFrame(FRAME_TYPE_POLL_FOR_MASTER, NextCandidate(p, station),
                                p.This_Station), "POLL_FOR_MASTER")
             EXCEPT !.p.Poll_Station = NextCandidate(p, station)]

\* variant: the token is used for as long as PDUs are queued
DoneWithToken_greedy(p, port) ==
    IF ~Ringbuf_Empty(port.q)
    THEN Goto(p, port, "USE_TOKEN", TRUE)
    ELSE [Goto(p, port, "PASS_TOKEN", TRUE) EXCEPT !.p.TokenCount = (@ + 1) % (Npoll + 1)]

\* DONE_WITH_TOKEN: use the token again, keep it as sole master, poll, or pass
DoneWithToken(p, port) ==
    IF p.FrameCount < p.Nmax_info_frames /\ ~Ringbuf_Empty(port.q)
    THEN Goto(p, port, "USE_TOKEN", TRUE)
    ELSE IF p.SoleMaster /\ p.TokenCount < Npoll
    THEN [Transmit(p, port,
                   ControlFrame(FRAME_TYPE_TOKEN, p.This_Station, p.This_Station), "IDLE")
             EXCEPT !.p.TokenCount = @ + 1]
    ELSE IF p.TokenCount >= Npoll
    THEN [PollNext(p, port, p.Poll_Station) EXCEPT !.p.TokenCount = 0]
    ELSE [Goto(p, port, "PASS_TOKEN", TRUE) EXCEPT !.p.TokenCount = @ + 1]

\* ANSWER_DATA_REQUEST: the reply Get_Reply finds, otherwise Reply-Postponed
AnswerDataRequest(p, port) ==
    CHOOSE r \in
        {IF reply.pdu_len # 0
         THEN [Transmit(p, port, reply.frame, "IDLE")
                  EXCEPT !.q = reply.q, !.buffer = reply.buffer]
         ELSE Transmit(p, port,
                       ControlFrame(FRAME_TYPE_REPLY_POSTPONED, p.SourceAddress,
                                    p.This_Station), "IDLE") :
            reply \in {MSTP_Get_Reply(port.q, port.buffer, port.input, p.SourceAddress,
                                      p.This_Station)}} : TRUE

MSTP_Master_Node_FSM(p, port, expired) ==
    CASE p.master_state = "INITIALIZE" ->
            [Goto(p, port, "IDLE", TRUE)
                EXCEPT !.p.Next_Station = p.This_Station,
                       !.p.Poll_Station = p.This_Station,
                       !.p.TokenCount = Npoll, !.p.FrameCount = 0,
                       !.p.SoleMaster = FALSE]
      [] p.master_state = "IDLE" ->
            IF p.event = "ReceivedValidFrame" THEN IdleValidFrame(p, port)
            ELSE IF p.event # "none" THEN Goto(p, port, "IDLE", FALSE)
            ELSE IF expired THEN Goto(p, port, "NO_TOKEN", TRUE)
            ELSE Stable(p, port)
      [] p.master_state = "USE_TOKEN" -> UseToken(p, port)
      [] p.master_state = "WAIT_FOR_REPLY" ->
            IF p.event = "ReceivedValidFrame"
               /\ p.DestinationAddress = p.This_Station
               /\ p.FrameType \in {FRAME_TYPE_REPLY_POSTPONED,
                                   FRAME_TYPE_BACNET_DATA_NOT_EXPECTING_REPLY}
            THEN [Goto(p, port, "DONE_WITH_TOKEN", TRUE)
                     EXCEPT !.put = (p.FrameType # FRAME_TYPE_REPLY_POSTPONED)]
            ELSE IF p.event # "none" THEN Goto(p, port, "WAIT_FOR_REPLY", FALSE)
            ELSE IF expired THEN Goto(p, port, "DONE_WITH_TOKEN", TRUE)
            ELSE Stable(p, port)
      [] p.master_state = "DONE_WITH_TOKEN" -> DoneWithToken(p, port)
      [] p.master_state = "PASS_TOKEN" ->
            Transmit(p, port,
                     ControlFrame(FRAME_TYPE_TOKEN, p.Next_Station, p.This_Station), "IDLE")
      [] p.master_state = "NO_TOKEN" ->
            IF p.event # "none"
            THEN [Stable(p, port) EXCEPT !.p.master_state = "IDLE",
                                         !.transition_now = TRUE]
            ELSE IF expired THEN PollNext(p, port, p.This_Station)
            ELSE Stable(p, port)
      [] p.master_state = "POLL_FOR_MASTER" ->
            IF p.event = "ReceivedValidFrame"
               /\ p.DestinationAddress = p.This_Station
               /\ p.FrameType = FRAME_TYPE_REPLY_TO_POLL_FOR_MASTER
            THEN [Goto(p, port, "PASS_TOKEN", TRUE)
                     EXCEPT !.p.SoleMaster = FALSE, !.p.Next_Station = p.SourceAddress,
                            !.p.Poll_Station = p.This_Station]
            ELSE IF p.event # "none" THEN Goto(p, port, "POLL_FOR_MASTER", FALSE)
            ELSE IF expired THEN PollNext(p, port, p.Poll_Station)
            ELSE Stable(p, port)
      [] p.master_state = "ANSWER_DATA_REQUEST" -> AnswerDataRequest(p, port)

(***************************************************************************)
(* Two master nodes on one bus.  Node A is the port of this program: its   *)
(* ring, input buffer and receive slot are the program's, and its FSM      *)
(* takes PDUs from them through MSTP_Get_Send, MSTP_Get_Reply and          *)
(* MSTP_Put_Receive.  Node B is a peer that may be switched on later.      *)
(* master holds the two nodes, rx the frame in flight.  Frames are         *)
(* transmitted atomically; a node that has something to do does it before  *)
(* any timeout expires, and of the nodes waiting in silence the one with   *)
(* the shortest timeout acts first.  framed holds what node A took from    *)
(* its ring and transmitted since it last received the token.              *)
(***************************************************************************)
Absent == [master_state |-> "OFF"]

\* a node as power-up leaves it
NodeInit(station, max_master, max_info_frames) ==
    [master_state |-> "INITIALIZE", This_Station |-> station,
     Nmax_master |-> max_master, Nmax_info_frames |-> max_info_frames,
     Next_Station |-> station, Poll_Station |-> station, TokenCount |-> 0,
     FrameCount |-> 0, SoleMaster |-> FALSE, event |-> "none",
     FrameType |-> 0, DestinationAddress |-> 0, SourceAddress |-> 0]

EmptyRing == [q |-> [head |-> 0, tail |-> 0], buffer |-> [s \in Slots |-> EmptyPacket],
              input |-> Zeros(DLMSTP_MPDU_MAX)]

\* what the application of node B has queued when the node is switched on:
\* nothing, or a request to station 0
PeerRings ==
    {EmptyRing} \cup
    {[q |-> sent.q, buffer |-> sent.buffer, input |-> EmptyRing.input] :
        sent \in {dlmstp_send_pdu(EmptyRing.q, EmptyRing.buffer, UnicastDest(0),
                                  RequestPdu, Len(RequestPdu),
                                  At(RequestPdu, BACNET_PDU_CONTROL_BYTE_OFFSET))}}

\* node A alone on the bus: its application broadcasts, giving the broadcast
\* address as dlmstp_get_broadcast_address and as dlmstp_fill_bacnet_address
\* write it
SoloBus ==
    [sends |-> {[dest |-> BroadcastDest, pdu |-> WhoIsPdu],
                [dest |-> dlmstp_fill_bacnet_address(MSTP_BROADCAST_ADDRESS),
                 pdu |-> WhoIsPdu]},
     max_sends |-> MaxSends, max_info_frames |-> {1, 2}, peers |-> {}]

\* the Simple-ACK followed by zeros, one octet longer than the longest NPDU
LongAckPdu == AckPdu \o Zeros(MaxPduLen + 1 - Len(AckPdu))

\* node A with a peer at station 1 and nothing to send
HandshakeBus ==
    [sends |-> {}, max_sends |-> 0, max_info_frames |-> {1}, peers |-> PeerRings]

\* node A with a peer at station 1: its application sends replies
PairBus ==
    [sends |-> {[dest |-> UnicastDest(1), pdu |-> AckPdu],
                [dest |-> UnicastDest(1), pdu |-> LongAckPdu]},
     max_sends |-> MaxPairSends, max_info_frames |-> {1}, peers |-> PeerRings]

NodeIds == {"A", "B"}

\* node A's configuration is the port's
Node(n) ==
    IF n = "A"
    THEN [master.A EXCEPT !.This_Station = This_Station, !.Nmax_master = Nmax_master,
                          !.Nmax_info_frames = Nmax_info_frames]
    ELSE master.B

Port(n) ==
    IF n = "A"
    THEN [q |-> PDU_Queue, buffer |-> PDU_Buffer, input |-> InputBuffer]
    ELSE master.B.port

Present(n) == master[n].master_state # "OFF"

WaitingStates == {"IDLE", "NO_TOKEN", "WAIT_FOR_REPLY", "POLL_FOR_MASTER"}

\* the node has a frame event to consume or a transition to make at once
Runnable(n) ==
    Present(n) /\ (master[n].event # "none" \/ master[n].master_state \notin WaitingStates)

\* milliseconds of silence after which the node acts
Expiry(p) ==
    CASE p.master_state = "WAIT_FOR_REPLY" -> Treply_timeout
      [] p.master_state = "POLL_FOR_MASTER" -> Tusage_timeout
      [] OTHER -> Tno_token + 10 * p.This_Station

\* nothing in flight and every node waiting: only time can pass
Quiet == rx.frame = << >> /\ \A n \in NodeIds : ~Runnable(n)

\* the port after dlmstp_init and the setters: station 0, Nmax_master 1
InitNode(bus) ==
    /\ PDU_Queue = [head |-> 0, tail |-> 0]
    /\ PDU_Buffer = [s \in Slots |-> EmptyPacket]
    /\ This_Station = dlmstp_set_mac_address(127, 127, 0).This_Station
    /\ Nmax_master = dlmstp_set_max_master(0, 127, 1)
    /\ \E max_info_frames \in bus.max_info_frames :
          Nmax_info_frames = dlmstp_set_max_info_frames(1, max_info_frames)
    /\ rx = [op |-> "bus", frame |-> << >>, sends |-> bus.sends,
             max_sends |-> bus.max_sends, peers |-> bus.peers]
    /\ InputBuffer = Zeros(DLMSTP_MPDU_MAX)
    /\ DataLength = 0
    /\ SourceAddress = 0
    /\ OutputBuffer = << >>
    /\ Receive_Packet = [ready |-> FALSE, address |-> ZeroAddress, pdu_len |-> 0,
                         pdu |-> Zeros(DLMSTP_MPDU_MAX)]
    /\ Receive_Packet_Flag = 0
    /\ caller = [src |-> ZeroAddress, pdu |-> Zeros(DLMSTP_MPDU_MAX)]
    /\ call = [op |-> "init", ret |-> 0]
    /\ accepted = << >>
    /\ framed = << >>
    /\ deposited = << >>
    /\ prod = NoThreads
    /\ cmp = [op |-> "none"]
    /\ RS485_Baud = "B38400"
    /\ mbox = [op |-> "none"]
    /\ master = [A |-> NodeInit(This_Station, Nmax_master, Nmax_info_frames),
                 B |-> Absent]

NodeOthers == <<portVars, caller, accepted, prod, cmp, mbox>>

\* one invocation of the Master Node FSM of node n
Run(n, expired) ==
    \E r \in {MSTP_Master_Node_FSM(Node(n), Port(n), expired)} :
        /\ rx' = [rx EXCEPT !.frame = r.out]
        /\ call' = [op |-> "Master_Node_FSM", node |-> n,
                    from |-> master[n].master_state, to |-> r.p.master_state,
                    event |-> master[n].event, ret |-> r.transition_now]
        /\ IF n = "A"
           THEN /\ master' = [master EXCEPT !.A = r.p]
                /\ PDU_Queue' = r.q
                /\ PDU_Buffer' = r.buffer
                /\ OutputBuffer' = IF r.out # << >> THEN r.out ELSE OutputBuffer
                /\ framed' = IF master.A.master_state = "IDLE"
                                /\ r.p.master_state \in {"USE_TOKEN", "DONE_WITH_TOKEN"}
                             THEN << >>
                             ELSE IF master.A.master_state = "USE_TOKEN"
                                     /\ r.q.tail # PDU_Queue.tail
                             THEN Append(framed, r.out)
                             ELSE framed
                /\ IF r.put
                   THEN \E slot \in {MSTP_Put_Receive(Receive_Packet, Receive_Packet_Flag,
                                                      InputBuffer, DataLength,
                                                      SourceAddress)} :
                           /\ Receive_Packet' = slot.slot
                           /\ Receive_Packet_Flag' = slot.sem
                           /\ deposited' = IF Receive_Packet.ready THEN deposited
                                           ELSE <<[data |-> Prefix(InputBuffer, DataLength),
                                                   length |-> DataLength,
                                                   source |-> SourceAddress]>>
                   ELSE UNCHANGED <<Receive_Packet, Receive_Packet_Flag, deposited>>
           ELSE /\ master' = [master EXCEPT
                                 !.B = [r.p EXCEPT !.port.q = r.q, !.port.buffer = r.buffer]]
                /\ UNCHANGED <<queueVars, OutputBuffer, framed, Receive_Packet,
                               Receive_Packet_Flag, deposited>>
        /\ UNCHANGED <<inputVars, NodeOthers>>

\* the FSM runs on a frame event or an immediate transition, the bus being free
NodeRun(n) ==
    /\ rx.frame = << >>
    /\ Runnable(n)
    /\ master[n].event # "none"
       \/ \A m \in NodeIds : Present(m) => master[m].event = "none"
    /\ Run(n, FALSE)

\* silence has lasted for the timeout of node n's state
NodeTimeout(n) ==
    /\ Quiet
    /\ Present(n)
    /\ \A m \in NodeIds : Present(m) => Expiry(Node(n)) <= Expiry(Node(m))
    /\ Run(n, TRUE)

\* a node does not hear its own frames, except the token it addresses to itself
Hears(p, frame) ==
    /\ p.master_state # "OFF"
    /\ \/ FrameSource(frame) # p.This_Station
       \/ /\ FrameType(frame) = FRAME_TYPE_TOKEN
          /\ FrameDestination(frame) = p.This_Station

\* what the Receive Frame FSM of a node makes of the frame in flight
Heard(p, frame) ==
    IF Hears(p, frame)
    THEN [p EXCEPT !.event = RxEventFor(FrameDestination(frame), p.This_Station),
                   !.FrameType = FrameType(frame),
                   !.DestinationAddress = FrameDestination(frame),
                   !.SourceAddress = FrameSource(frame)]
    ELSE p

\* the frame in flight reaches the nodes
Deliver ==
    /\ rx.frame # << >>
    /\ \E frame \in {rx.frame} :
          /\ master' = [A |-> Heard(Node("A"), frame),
                        B |-> IF Present("B")
                              THEN [Heard(master.B, frame) EXCEPT !.port.input =
                                      CopyInto(@, FramePayload(frame), FrameLength(frame))]
                              ELSE master.B]
          /\ IF Hears(Node("A"), frame)
             THEN /\ InputBuffer' = CopyInto(InputBuffer, FramePayload(frame),
                                             FrameLength(frame))
                  /\ DataLength' = FrameLength(frame)
                  /\ SourceAddress' = FrameSource(frame)
             ELSE UNCHANGED inputVars
    /\ rx' = [rx EXCEPT !.frame = << >>]
    /\ call' = [op |-> "frame", ret |-> 0]
    /\ UNCHANGED <<queueVars, OutputBuffer, slotVars, histVars, portVars, prod, cmp, mbox>>

\* node B is switched on
Join ==
    /\ ~Present("B")
    /\ \E port \in rx.peers :
          master' = [master EXCEPT !.B =
                        [NodeInit(1, Nmax_master, 1) @@ [port |-> port]
                            EXCEPT !.master_state = "INITIALIZE"]]
    /\ call' = [op |-> "join", ret |-> 0]
    /\ UNCHANGED <<queueVars, inputVars, OutputBuffer, slotVars, histVars, portVars,
                   prod, cmp, mbox, rx>>

\* the application of node A calls dlmstp_send_pdu
NodeSend ==
    \E in \in rx.sends :
        /\ PDU_Queue.head < rx.max_sends \/ Ringbuf_Full(PDU_Queue)
        /\ SendPdu(in.dest, in.pdu, At(in.pdu, BACNET_PDU_CONTROL_BYTE_OFFSET))
        /\ accepted' = IF PDU_Queue'.head > PDU_Queue.head
                       THEN Append(accepted, in) ELSE accepted
        /\ framed' = framed

NextSolo == NodeRun("A") \/ NodeTimeout("A") \/ Deliver \/ NodeSend

SpecSolo == InitNode(SoloBus) /\ [][NextSolo]_vars

\* what the nodes do by themselves.  Node B never waits for as long as one
\* of its timeouts: node A answers it at once, and of two silent nodes A has
\* the shorter timeout.
Progress == NodeRun("A") \/ NodeRun("B") \/ NodeTimeout("A") \/ Deliver

NextPair == Progress \/ Join \/ NodeSend

SpecPair == InitNode(PairBus) /\ [][NextPair]_vars

NextHandshake == Progress \/ Join

\* the tasks of both nodes keep running
SpecHandshake == InitNode(HandshakeBus) /\ [][NextHandshake]_vars /\ WF_vars(Progress)

\* the oldest queued PDU that matches the request in InputBuffer, 0 for none
FirstMatch ==
    IF \E i \in 1..Len(Queue) : Matches(Queue[i], InputBuffer, SourceAddress)
    THEN CHOOSE i \in 1..Len(Queue) :
            /\ Matches(Queue[i], InputBuffer, SourceAddress)
            /\ \A j \in 1..(i - 1) : ~Matches(Queue[j], InputBuffer, SourceAddress)
    ELSE 0

\* node A makes a step of its FSM out of state
Leaves(state) ==
    /\ call'.op = "Master_Node_FSM"
    /\ call'.node = "A"
    /\ master.A.master_state = state
    /\ master'.A # master.A

\* C22: node A in IDLE with a valid BACnet-Data-Expecting-Reply frame
\* addressed to it enters ANSWER_DATA_REQUEST, and leaves it for IDLE
\* transmitting one frame: the oldest queued PDU that matches the request,
\* which is removed from the queue, or Reply-Postponed (type 7, no data) to
\* the requester when no queued PDU matches.
C22_AnswersWithReplyOrPostponed ==
    /\ [][(/\ Leaves("IDLE")
           /\ master.A.event = "ReceivedValidFrame"
           /\ master.A.FrameType = FRAME_TYPE_BACNET_DATA_EXPECTING_REPLY
           /\ master.A.DestinationAddress = This_Station)
             => (master'.A.master_state = "ANSWER_DATA_REQUEST" /\ rx'.frame = << >>)]_vars
    /\ [][Leaves("ANSWER_DATA_REQUEST") =>
             /\ master'.A.master_state = "IDLE"
             /\ IF FirstMatch # 0
                THEN /\ rx'.frame # << >>
                     /\ rx'.frame = FrameOf(Queue[FirstMatch], This_Station)
                     /\ Len(Queue') = Len(Queue) - 1
                ELSE /\ rx'.frame = ControlFrame(FRAME_TYPE_REPLY_POSTPONED,
                                                 master.A.SourceAddress, This_Station)
                     /\ FrameLength(rx'.frame) = 0
                     /\ UNCHANGED queueVars]_vars

\* the node holds the token
HoldsToken(n) ==
    Present(n) /\ master[n].master_state \in {"USE_TOKEN", "WAIT_FOR_REPLY", "DONE_WITH_TOKEN"}

\* node n makes a step of its FSM with a valid frame of the type from source
Receives(n, frame_type, source) ==
    /\ call'.op = "Master_Node_FSM"
    /\ call'.node = n
    /\ master[n].event = "ReceivedValidFrame"
    /\ master[n].FrameType = frame_type
    /\ master[n].SourceAddress = source
    /\ master[n].DestinationAddress = master[n].This_Station

\* C24: stations 0 (node A) and 1 (node B), both with Nmax_master 1.  B in
\* IDLE answers A's Poll-For-Master with Reply-To-Poll-For-Master; A, polling,
\* then clears SoleMaster, sets Next_Station to 1 and passes the token to
\* station 1; whenever B holds the token with an empty queue it eventually
\* passes the token to station 0; and the two nodes never hold the token
\* (USE_TOKEN, WAIT_FOR_REPLY, DONE_WITH_TOKEN) at the same time.
C24_TwoMasterHandshake ==
    /\ [](Present("B") => master.B.This_Station = 1 /\ master.B.Nmax_master = 1)
    /\ [](This_Station = 0 /\ Nmax_master = 1)
    /\ [][(Receives("B", FRAME_TYPE_POLL_FOR_MASTER, 0) /\ master.B.master_state = "IDLE")
             => rx'.frame = ControlFrame(FRAME_TYPE_REPLY_TO_POLL_FOR_MASTER, 0, 1)]_vars
    /\ [][(Receives("A", FRAME_TYPE_REPLY_TO_POLL_FOR_MASTER, 1)
           /\ master.A.master_state = "POLL_FOR_MASTER")
             => /\ ~master'.A.SoleMaster
                /\ master'.A.Next_Station = 1
                /\ master'.A.master_state = "PASS_TOKEN"]_vars
    /\ [][Leaves("PASS_TOKEN") =>
             rx'.frame = ControlFrame(FRAME_TYPE_TOKEN, master.A.Next_Station, 0)]_vars
    /\ [](~(HoldsToken("A") /\ HoldsToken("B")))
    /\ (HoldsToken("B") /\ Ringbuf_Empty(master.B.port.q))
          ~> (rx.frame = ControlFrame(FRAME_TYPE_TOKEN, 0, 1))

\* node A, no longer sole master, has the token back from station 1, whose
\* queue is empty
C24_TokenBackFromPeer ==
    /\ Present("B")
    /\ Ringbuf_Empty(master.B.port.q)
    /\ master.B.port.q.head = 0
    /\ ~master.A.SoleMaster
    /\ master.A.Next_Station = 1
    /\ master.A.event = "ReceivedValidFrame"
    /\ master.A.FrameType = FRAME_TYPE_TOKEN
    /\ master.A.SourceAddress = 1
    /\ master.A.DestinationAddress = 0

\* C23: between receiving the token and giving it up node A takes from its
\* ring and transmits at most Nmax_info_frames data frames, however many
\* PDUs are queued: it goes back from DONE_WITH_TOKEN to USE_TOKEN only while
\* fewer have been sent.
C23_AtMostMaxInfoFrames ==
    /\ [](Len(framed) <= Nmax_info_frames)
    /\ [](\A i \in 1..Len(framed) :
             /\ FrameSource(framed[i]) = This_Station
             /\ FrameType(framed[i]) \in {FRAME_TYPE_BACNET_DATA_EXPECTING_REPLY,
                                          FRAME_TYPE_BACNET_DATA_NOT_EXPECTING_REPLY})
    /\ [][(Leaves("DONE_WITH_TOKEN") /\ master'.A.master_state = "USE_TOKEN")
             => Len(framed) < Nmax_info_frames]_vars
    /\ [][(Leaves("DONE_WITH_TOKEN") /\ master'.A.master_state # "USE_TOKEN")
             => (Len(framed) = Nmax_info_frames \/ Ringbuf_Empty(PDU_Queue))]_vars

\* with Nmax_info_frames set to 2 node A has sent two frames and gives up the
\* token while PDUs are still queued
C23_TokenGivenUpWithPdusQueued ==
    /\ Nmax_info_frames = 2
    /\ Len(framed) = 2
    /\ Ringbuf_Count(PDU_Queue) = 2
    /\ call.op = "Master_Node_FSM"
    /\ call.from = "DONE_WITH_TOKEN"
    /\ call.to = "IDLE"

\* C25: node A, station 0 with Nmax_master 1 and alone on the bus, leaves
\* IDLE when the silence has lasted Tno_token, polls station 1, and on the
\* timeout wraps: it is sole master with Next_Station = This_Station.  As
\* sole master it transmits every PDU accepted for the broadcast address as
\* a BACnet-Data-Not-Expecting-Reply frame to 255 from station 0 with the
\* PDU as data.
C25_SoleMasterBroadcasts ==
    /\ [][(Leaves("IDLE") /\ master.A.event = "none")
             => master'.A.master_state = "NO_TOKEN"]_vars
    /\ [][Leaves("NO_TOKEN") =>
             /\ rx'.frame = ControlFrame(FRAME_TYPE_POLL_FOR_MASTER, 1, 0)
             /\ master'.A.master_state = "POLL_FOR_MASTER"]_vars
    /\ [][Leaves("POLL_FOR_MASTER") =>
             /\ master'.A.SoleMaster
             /\ master'.A.Next_Station = This_Station
             /\ master'.A.master_state = "IDLE"]_vars
    /\ [][(/\ Leaves("USE_TOKEN")
           /\ master.A.SoleMaster
           /\ PDU_Queue'.tail = PDU_Queue.tail + 1
           /\ MstpAddressOf(accepted[PDU_Queue'.tail].dest) = MSTP_BROADCAST_ADDRESS)
             => /\ FrameType(rx'.frame) = FRAME_TYPE_BACNET_DATA_NOT_EXPECTING_REPLY
                /\ FrameDestination(rx'.frame) = MSTP_BROADCAST_ADDRESS
                /\ FrameSource(rx'.frame) = 0
                /\ FramePayload(rx'.frame) = accepted[PDU_Queue'.tail].pdu]_vars

(***************************************************************************)
(* What dlmstp_send_pdu reads of the caller's PDU.                         *)
(***************************************************************************)
\* C34: dlmstp_send_pdu reads only the octets of the PDU: the
\* data_expecting_reply flag of the packet it queues is the bit of octet 1
\* when the PDU has an octet 1 and is clear when pdu_len is 0 or 1, whatever
\* lies behind the caller's data.
C34_FlagFromPduOctetsOnly ==
    [][(call'.op = "send_pdu" /\ PDU_Queue'.head = PDU_Queue.head + 1)
          => PDU_Buffer'[SlotOf(PDU_Queue.head)].data_expecting_reply
                = (/\ Len(call'.pdu) > BACNET_PDU_CONTROL_BYTE_OFFSET
                   /\ BACNET_DATA_EXPECTING_REPLY(
                          At(call'.pdu, BACNET_PDU_CONTROL_BYTE_OFFSET)))]_vars

(***************************************************************************)
(* The tail of dlmstp_init and the two task functions, statement by        *)
(* statement.  dlmstp_init creates one thread and then calls               *)
(* dlmstp_receive_fsm_task itself.  Each task function is examined as the  *)
(* start routine of the thread, running alone on the port:                 *)
(* dlmstp_master_fsm_task as dlmstp_init is written, and                   *)
(* dlmstp_receive_fsm_task in its place.  The node machines are not part   *)
(* of the port: an invocation consumes the pending frame event and reports *)
(* whether it is to be invoked again.  Nothing in the receive task clears  *)
(* a frame event.                                                          *)
(***************************************************************************)
\* immediate transitions the Master Node FSM reports in a row
MaxTransitions == 2

\* the caller owns the port structure and the station number in it
TaskStations == {0, 127, 128, 254, 255}

TaskRoutines == {"dlmstp_master_fsm_task", "dlmstp_receive_fsm_task"}

\* frames on the bus: data to station 127, a token to station 2, a header
\* with a changed octet, and a sender that stops after five octets
TaskFrames ==
    {RxBuilt(FRAME_TYPE_BACNET_DATA_NOT_EXPECTING_REPLY, 127, 3, 1).octets,
     RxBuilt(FRAME_TYPE_TOKEN, 2, 3, 0).octets,
     RxCorrupted(RxBuilt(FRAME_TYPE_TOKEN, 127, 3, 0)).octets,
     RxTruncated(RxBuilt(FRAME_TYPE_BACNET_DATA_NOT_EXPECTING_REPLY, 127, 3, 1), 5).octets}

\* variant: only ReceivedValidFrame holds the Receive Frame FSM back
NoFrameEvent_validOnly(port) == port.event # "ReceivedValidFrame"

\* ReceivedValidFrame, ReceivedValidFrameNotForUs and ReceivedInvalidFrame
\* are all false
NoFrameEvent(port) == port.event = "none"

\* variant: every station runs the Master Node FSM
NodeFsmOf_master(station) == "Master_Node_FSM"

\* the node machine the master task runs for a station
NodeFsmOf(station) ==
    IF station <= DEFAULT_MAX_MASTER THEN "Master_Node_FSM"
    ELSE IF station < 255 THEN "Slave_Node_FSM"
    ELSE "none"

InitTasks ==
    /\ PDU_Queue = [head |-> 0, tail |-> 0]
    /\ PDU_Buffer = [s \in Slots |-> EmptyPacket]
    /\ This_Station \in TaskStations
    /\ Nmax_master = 127
    /\ Nmax_info_frames = 1
    /\ InputBuffer = Zeros(DLMSTP_MPDU_MAX)
    /\ DataLength = 0
    /\ SourceAddress = 0
    /\ OutputBuffer = << >>
    /\ Receive_Packet = [ready |-> FALSE, address |-> ZeroAddress, pdu_len |-> 0,
                         pdu |-> Zeros(DLMSTP_MPDU_MAX)]
    /\ Receive_Packet_Flag = 0
    /\ caller = [src |-> ZeroAddress, pdu |-> Zeros(DLMSTP_MPDU_MAX)]
    /\ call = [op |-> "init", n |-> 0, ret |-> FALSE]
    /\ accepted = << >>
    /\ framed = << >>
    /\ deposited = << >>
    /\ prod = NoThreads
    /\ cmp = [op |-> "none"]
    /\ RS485_Baud = "B38400"
    /\ \E routine \in TaskRoutines :
          mbox = [pc |-> "pthread_create", start_routine |-> routine, rv |-> 0,
                  receive_fsm_task |-> "not called", ret |-> FALSE]
    /\ master = [pc |-> "not created", run_master |-> FALSE, n |-> 0]
    /\ rx = [port |-> [state |-> "IDLE", HeaderCRC |-> 0, DataCRC |-> 0, Index |-> 0,
                       FrameType |-> 0, DestinationAddress |-> 0,
                       SourceAddress |-> 0, DataLength |-> 0,
                       InputBuffer |-> Zeros(DLMSTP_MPDU_MAX), event |-> "none",
                       overrun |-> FALSE],
             wire |-> << >>]

TaskOthers == <<queueVars, portVars, OutputBuffer, slotVars, histVars, prod, cmp>>

\* rv = pthread_create(&hThread, NULL, start_routine, mstp_port): the thread
\* exists when rv is 0, and a failure is only reported on stderr
I_Create ==
    /\ mbox.pc = "pthread_create"
    /\ \E rv \in {0, 1} :
          /\ mbox' = [mbox EXCEPT !.pc = "dlmstp_receive_fsm_task", !.rv = rv]
          /\ master' = [master EXCEPT !.pc = IF rv # 0 THEN "not created"
                                             ELSE IF mbox.start_routine =
                                                     "dlmstp_master_fsm_task"
                                             THEN "receive" ELSE "guard"]
    /\ UNCHANGED <<rx, call, inputVars, TaskOthers>>

\* what a call of dlmstp_receive_fsm_task(pArg) by the calling thread comes
\* to: it returns at once for a null pArg and loops for ever otherwise
dlmstp_receive_fsm_task(pArg) == IF pArg = NULL THEN "returned" ELSE "looping"

\* dlmstp_receive_fsm_task(NULL); return true;
I_Receive ==
    /\ mbox.pc = "dlmstp_receive_fsm_task"
    /\ \E r \in {dlmstp_receive_fsm_task(NULL)} :
          mbox' = [mbox EXCEPT !.receive_fsm_task = r,
                               !.pc = IF r = "returned" THEN "returned" ELSE @,
                               !.ret = r = "returned"]
    /\ UNCHANGED <<rx, master, call, inputVars, TaskOthers>>

\* a station of the bus sends a frame while the line is idle
Bus ==
    /\ rx.wire = << >>
    /\ \E octets \in TaskFrames : rx' = [rx EXCEPT !.wire = octets]
    /\ UNCHANGED <<mbox, master, call, inputVars, TaskOthers>>

\* RS485_Check_UART_Data and MSTP_Receive_Frame_FSM: the machine takes the
\* octet the UART holds; with none it looks at the silence, which has or has
\* not reached Tframe_abort
ReceiveStep ==
    \E r \in IF rx.wire # << >>
             THEN {MSTP_Receive_Frame_FSM(rx.port, Head(rx.wire))}
             ELSE {MSTP_Receive_Frame_FSM_Silence(rx.port, silence) :
                      silence \in {0, Tframe_abort}} :
        /\ rx' = [rx EXCEPT !.port = r, !.wire = IF @ # << >> THEN Tail(@) ELSE @]
        /\ RxPort(r)
        /\ call' = [op |-> "Receive_Frame_FSM", n |-> Len(rx.wire), ret |-> r.event # "none"]

\* the master task's receive step
M_Receive ==
    /\ master.pc = "receive"
    /\ IF NoFrameEvent(rx.port)
       THEN ReceiveStep
       ELSE /\ call' = [op |-> "held", n |-> Len(rx.wire), ret |-> FALSE]
            /\ UNCHANGED <<rx, inputVars>>
    /\ master' = [master EXCEPT !.pc = "decide"]
    /\ UNCHANGED <<mbox, TaskOthers>>

\* the run_master decision: a frame event, or the silence of the state the
\* node is in
M_Decide ==
    /\ master.pc = "decide"
    /\ \E timeout \in BOOLEAN :
          master' = [master EXCEPT
                        !.pc = "run",
                        !.n = 0,
                        !.run_master = IF ~NoFrameEvent(rx.port) \/ timeout
                                       THEN TRUE ELSE @]
    /\ UNCHANGED <<rx, mbox, call, inputVars, TaskOthers>>

\* if (run_master): the choice of the node machine; the Slave Node FSM is
\* run once
M_Run ==
    /\ master.pc = "run"
    /\ \E fsm \in {IF master.run_master THEN NodeFsmOf(This_Station) ELSE "none"} :
          /\ master' = [master EXCEPT !.pc = IF fsm = "Master_Node_FSM"
                                             THEN "Master_Node_FSM" ELSE "receive"]
          /\ IF fsm = "Slave_Node_FSM"
             THEN /\ rx' = [rx EXCEPT !.port.event = "none"]
                  /\ call' = [op |-> "Slave_Node_FSM", n |-> 1, ret |-> FALSE]
             ELSE UNCHANGED <<rx, call>>
    /\ UNCHANGED <<mbox, inputVars, TaskOthers>>

\* while (MSTP_Master_Node_FSM(mstp_port)) { }
M_MasterFsm ==
    /\ master.pc = "Master_Node_FSM"
    /\ \E transition_now \in BOOLEAN :
          /\ transition_now => master.n < MaxTransitions
          /\ master' = [master EXCEPT !.n = @ + 1,
                                      !.pc = IF transition_now THEN @ ELSE "receive"]
          /\ call' = [op |-> "Master_Node_FSM", n |-> master.n + 1, ret |-> transition_now]
    /\ rx' = [rx EXCEPT !.port.event = "none"]
    /\ UNCHANGED <<mbox, inputVars, TaskOthers>>

\* the receive task's test of the three flags
R_Guard ==
    /\ master.pc = "guard"
    /\ NoFrameEvent(rx.port)
    /\ master' = [master EXCEPT !.pc = "do"]
    /\ UNCHANGED <<rx, mbox, call, inputVars, TaskOthers>>

\* the body of the receive task's do-while, left on a frame event (after
\* pthread_cond_signal) or when the UART has no more data
R_Do ==
    /\ master.pc = "do"
    /\ ReceiveStep
    /\ master' = [master EXCEPT !.pc = IF NoFrameEvent(rx'.port) /\ rx'.wire # << >>
                                       THEN "do" ELSE "guard"]
    /\ UNCHANGED <<mbox, TaskOthers>>

NextTasks ==
    \/ I_Create \/ I_Receive \/ Bus
    \/ M_Receive \/ M_Decide \/ M_Run \/ M_MasterFsm
    \/ R_Guard \/ R_Do

SpecTasks == InitTasks /\ [][NextTasks]_vars

\* one of the three frame event flags is set
EventPending == rx.port.event \in FrameEvents

\* the frame event flags aside, what the Receive Frame FSM has decoded
Decoded(port) == [port EXCEPT !.event = "none"]

\* a step that takes an octet from the UART or changes what is decoded
Decodes ==
    \/ rx.wire # << >> /\ rx'.wire = Tail(rx.wire)
    \/ Decoded(rx'.port) # Decoded(rx.port)
    \/ <<InputBuffer, DataLength, SourceAddress>>' # <<InputBuffer, DataLength, SourceAddress>>

\* C31: in the master task's loop and in the receive task's loop the Receive
\* Frame FSM is stepped only while no frame event flag is set: with a flag
\* set no octet is taken from the UART and the decoded header fields and
\* InputBuffer stay as they are, until the node machine has cleared the
\* flag.
C31_NoDecodingWhileEventPending ==
    /\ [][EventPending => ~Decodes]_vars
    /\ [][call'.op = "Receive_Frame_FSM" /\ call' # call => ~EventPending]_vars
    /\ [][(EventPending /\ ~EventPending')
             => call'.op \in {"Master_Node_FSM", "Slave_Node_FSM"}]_vars

\* the master task has passed its receive step with a frame event pending
\* and the octets of the next frame waiting at the UART
C31_MasterTaskHoldsBack ==
    /\ mbox.start_routine = "dlmstp_master_fsm_task"
    /\ master.pc = "decide"
    /\ call.op = "held"
    /\ EventPending
    /\ rx.wire # << >>

\* C32: once dlmstp_init has returned true a receive task is driving the
\* Receive Frame FSM and a separate master task is driving the node
\* machine, and the receive loop dlmstp_init started has not come to an end.
C32_TwoTasksAfterInit ==
    (/\ mbox.start_routine = "dlmstp_master_fsm_task"
     /\ mbox.pc = "returned"
     /\ mbox.ret)
        => /\ master.pc # "not created"
           /\ mbox.receive_fsm_task = "looping"

\* C33: when run_master is set the master task chooses by This_Station
\* alone: up to 127 it invokes the Master Node FSM, again and again with no
\* step of the Receive Frame FSM in between while the machine reports an
\* immediate transition; from 128 to 254 it invokes the Slave Node FSM
\* once; for 255 it invokes neither.
C33_NodeFsmByStation ==
    /\ [][(master.pc = "run" /\ master.run_master /\ master' # master) =>
             /\ This_Station \in 0..127 =>
                   master'.pc = "Master_Node_FSM" /\ UNCHANGED <<rx, call>>
             /\ This_Station \in 128..254 =>
                   /\ call' = [op |-> "Slave_Node_FSM", n |-> 1, ret |-> FALSE]
                   /\ master'.pc = "receive"
             /\ This_Station = 255 =>
                   master'.pc = "receive" /\ UNCHANGED <<rx, call>>]_vars
    /\ [][(master.pc = "Master_Node_FSM" /\ master' # master) =>
             /\ call'.op = "Master_Node_FSM"
             /\ call'.n = master.n + 1
             /\ master'.pc = IF call'.ret THEN "Master_Node_FSM" ELSE "receive"]_vars
    /\ [][master.pc = "Master_Node_FSM" => ~Decodes]_vars
    /\ [][(call' # call /\ call'.op = "Master_Node_FSM")
             => This_Station \in 0..127 /\ master.run_master]_vars
    /\ [][(call' # call /\ call'.op = "Slave_Node_FSM")
             => This_Station \in 128..254 /\ master.run_master]_vars

\* station 127 has invoked the Master Node FSM a second time in one
\* iteration, with octets waiting at the UART
C33_MasterFsmInvokedAgain ==
    /\ This_Station = 127
    /\ call.op = "Master_Node_FSM"
    /\ call.n = 2
    /\ master.pc = "Master_Node_FSM"
    /\ rx.wire # << >>

(***************************************************************************)
(* mstpsnap: the capture tool's main loop.  It owns the port (station 127, *)
(* InputBuffer of DLMSTP_MPDU_MAX octets) and writes one SNAP packet to    *)
(* its socket for every frame event.                                       *)
(***************************************************************************)
\* frames the bus carries in one run of the tool; packet_count, a uint32_t,
\* stays far below its width
MaxPackets == 2

\* the Receive Frame FSM with the CRC octets as they were received
SnapReceive(p, octet) ==
    [MSTP_Receive_Frame_FSM(p, octet) EXCEPT
        !.HeaderCRCActual = IF p.state = "HEADER_CRC" THEN octet ELSE @,
        !.DataCRCActualMSB = IF p.state = "DATA_CRC" /\ p.Index = p.DataLength
                             THEN octet ELSE @,
        !.DataCRCActualLSB = IF p.state = "DATA_CRC" /\ p.Index # p.DataLength
                             THEN octet ELSE @]

\* variant: the packet ends with the MS/TP header
snap_received_packet_header(port) ==
    LET mtu_len == 31
    IN  [i \in 1..mtu_len |->
            CASE i - 1 \in {5, 26} -> port.DestinationAddress
              [] i - 1 \in {11, 27} -> port.SourceAddress
              [] i - 1 = 12 -> (mtu_len - 14) \div 256
              [] i - 1 = 13 -> (mtu_len - 14) % 256
              [] i - 1 \in {14, 15} -> 170
              [] i - 1 = 16 -> 3
              [] i - 1 = 18 -> 16
              [] i - 1 = 19 -> 144
              [] i - 1 = 21 -> 1
              [] i - 1 = 24 -> 128
              [] i - 1 = 25 -> port.FrameType
              [] i - 1 = 28 -> port.DataLength \div 256
              [] i - 1 = 29 -> port.DataLength % 256
              [] i - 1 = 30 -> port.HeaderCRCActual
              [] OTHER -> 0]

\* the octets snap_received_packet writes to the socket: the first mtu_len
\* octets of mtu, each of them assigned in the call
snap_received_packet(port) ==
    LET max_data == Min(Len(port.InputBuffer), port.DataLength)
        mtu_len == IF port.DataLength # 0 THEN 31 + max_data + 2 ELSE 31
    IN  [i \in 1..mtu_len |->
            CASE i - 1 \in {5, 26} -> port.DestinationAddress
              [] i - 1 \in {11, 27} -> port.SourceAddress
              [] i - 1 = 12 -> (mtu_len - 14) \div 256
              [] i - 1 = 13 -> (mtu_len - 14) % 256
              [] i - 1 \in {14, 15} -> 170
              [] i - 1 = 16 -> 3
              [] i - 1 = 18 -> 16
              [] i - 1 = 19 -> 144
              [] i - 1 = 21 -> 1
              [] i - 1 = 24 -> 128
              [] i - 1 = 25 -> port.FrameType
              [] i - 1 = 28 -> port.DataLength \div 256
              [] i - 1 = 29 -> port.DataLength % 256
              [] i - 1 = 30 -> port.HeaderCRCActual
              [] i - 1 \in 31..(30 + max_data) -> At(port.InputBuffer, i - 1 - 31)
              [] i - 1 = 31 + max_data -> port.DataCRCActualMSB
              [] i - 1 = 31 + max_data + 1 -> port.DataCRCActualLSB
              [] OTHER -> 0]

InitSnap ==
    /\ InitPort
    /\ RS485_Baud = "B38400"
    /\ mbox = [op |-> "none"]
    /\ master = [op |-> "none"]
    /\ prod = NoThreads
    /\ cmp = [op |-> "none"]
    /\ rx = [port |-> [state |-> "IDLE", HeaderCRC |-> 0, DataCRC |-> 0, Index |-> 0,
                       FrameType |-> 0, DestinationAddress |-> 0,
                       SourceAddress |-> SourceAddress, DataLength |-> DataLength,
                       InputBuffer |-> InputBuffer, event |-> "none",
                       overrun |-> FALSE, HeaderCRCActual |-> 0,
                       DataCRCActualMSB |-> 0, DataCRCActualLSB |-> 0],
             wire |-> << >>, frames |-> 0, packet_count |-> 0, written |-> 0,
             mtu |-> << >>]

SnapOthers == <<queueVars, portVars, OutputBuffer, slotVars, histVars, prod, cmp, mbox,
                master>>

\* a station of the bus sends a frame while the line is idle
SnapBus ==
    /\ rx.wire = << >>
    /\ rx.frames < MaxPackets
    /\ \E frame \in RxFrames :
          rx' = [rx EXCEPT !.wire = frame.octets, !.frames = @ + 1]
    /\ call' = [op |-> "bus", event |-> "none"]
    /\ UNCHANGED <<inputVars, SnapOthers>>

\* one iteration of main's for (;;): the UART, one step of the Receive Frame
\* FSM, and the frame event it raised, if any
SnapIteration ==
    /\ \E r \in IF rx.wire # << >>
                THEN {SnapReceive(rx.port, Head(rx.wire))}
                ELSE {MSTP_Receive_Frame_FSM_Silence(rx.port, silence) :
                         silence \in {0, Tframe_abort}} :
          /\ rx' = IF r.event \in FrameEvents
                   THEN [rx EXCEPT !.port = [r EXCEPT !.event = "none"],
                                   !.wire = IF @ # << >> THEN Tail(@) ELSE @,
                                   !.mtu = snap_received_packet(r),
                                   !.written = @ + 1,
                                   !.packet_count = @ + 1]
                   ELSE [rx EXCEPT !.port = r,
                                   !.wire = IF @ # << >> THEN Tail(@) ELSE @]
          /\ RxPort(r)
          /\ call' = [op |-> "snap", event |-> r.event]
    /\ UNCHANGED SnapOthers

NextSnap == SnapBus \/ SnapIteration

SpecSnap == InitSnap /\ [][NextSnap]_vars

\* C35: in mstpsnap's loop every frame event the Receive Frame FSM raises is
\* consumed in the iteration that raised it: the flag is cleared, one SNAP
\* packet is written and packet_count grows by one; an iteration without an
\* event writes nothing; no flag is set when the machine is stepped again.
\* The packet is 31 octets long when DataLength is 0 and
\* 31 + min(InputBufferSize, DataLength) + 2 otherwise, and its Ethernet
\* length field holds that length less 14.
C35_OnePacketPerFrameEvent ==
    /\ [](rx.port.event = "none")
    /\ [](rx.written = rx.packet_count)
    /\ [][(call'.op = "snap" /\ call'.event \in FrameEvents) =>
             /\ rx'.written = rx.written + 1
             /\ rx'.packet_count = rx.packet_count + 1
             /\ Len(rx'.mtu) = IF DataLength' = 0 THEN 31
                               ELSE 31 + Min(DLMSTP_MPDU_MAX, DataLength') + 2
             /\ rx'.mtu[13] * 256 + rx'.mtu[14] = Len(rx'.mtu) - 14]_vars
    /\ [][(call'.op = "snap" /\ call'.event = "none") =>
             /\ rx'.written = rx.written
             /\ rx'.packet_count = rx.packet_count
             /\ rx'.mtu = rx.mtu]_vars

\* the second packet has been written, for a frame with a data octet that
\* was not for this station
C35_SecondPacketWithData ==
    /\ call.op = "snap"
    /\ call.event = "ReceivedValidFrameNotForUs"
    /\ rx.packet_count = 2
    /\ DataLength = 1
    /\ Len(rx.mtu) = 34

=============================================================================
